---- MODULE Spec2Model ----
(***************************************************************************)
(* Model of the PyTCP inbound TCP dispatch (_phrx_tcp) and of the inbound  *)
(* IPv6 fragment reassembly (_phrx_ip6_ext_frag / __defragment_ip6_packet).*)
(***************************************************************************)
EXTENDS Integers, Sequences, FiniteSets, TLC

VARIABLES
    sockets,          \* stack.sockets: the set of keys that have a socket
    packet_stats_rx,  \* the inbound packet statistics counters
    packet_rx,        \* the TCP segment handled by the last _phrx_tcp call
    tcp_fwd,          \* sockets whose process_tcp_packet the last call invoked
    tcp_tx,           \* segments the last call handed to _phtx_tcp
    ip6_frag_flows,   \* the IPv6 fragment flow table
    now,              \* the value time() returns
    frag_out,         \* what the last _phrx_ip6_ext_frag call did
    frag_seen,        \* history of each live flow (used by the properties only)
    frag_done,        \* flows that had a datagram passed on to _phrx_ip6
    icmp6_parser,     \* the Icmp6Parser object and how its construction ended
    ip6_host,         \* the Ip6Host object and what the last call on it did
    ip4_mask,         \* the Ip4Mask object and how its construction ended
    ip_hosts,         \* stack.packet_handler.ip6_host and .ip4_host
    local_ip,         \* the last pick_local_ip_address call and its result
    icmp_msg,         \* an ICMP message object, its bytes and what was parsed
    sock_name,        \* the last getsockname / getpeername call and its result
    ip4_header        \* the Ip4Header parsed from bytes and its bytes again

vars == <<sockets, packet_stats_rx, packet_rx, tcp_fwd, tcp_tx,
          ip6_frag_flows, now, frag_out, frag_seen, frag_done,
          icmp6_parser, ip6_host, ip4_mask, ip_hosts, local_ip,
          icmp_msg, sock_name, ip4_header>>

tcpVars == <<sockets, packet_rx, tcp_fwd, tcp_tx>>
fragVars == <<ip6_frag_flows, now, frag_out, frag_seen, frag_done>>
libVars == <<icmp6_parser, ip6_host, ip4_mask>>
extVars == <<ip_hosts, local_ip, icmp_msg, sock_name, ip4_header>>

-----------------------------------------------------------------------------
(* Bounds *)

\* number of inbound TCP segments handled in one behaviour
MaxTcpRx == 2
\* number of inbound IPv6 fragments handled in one behaviour
MaxFragRx == 3
\* largest value of the clock
MaxTime == 2

-----------------------------------------------------------------------------
(* 32-bit quantities.  A sequence number is kept as <<hi, lo>>, its value  *)
(* being hi * 65536 + lo, so that values next to 2^32 are represented      *)
(* exactly.  Python integers are unbounded: a sum is not reduced, and a    *)
(* result of 2^32 or more has hi > 65535.                                  *)

U32(hi, lo) == <<hi, lo>>

\* Python's  value + n  for a small non-negative n
AddInt(v, n) == LET t == v[2] + n IN <<v[1] + (t \div 65536), t % 65536>>

BoolInt(b) == IF b THEN 1 ELSE 0

-----------------------------------------------------------------------------
(* TCP: addresses, socket keys, inbound segments *)

LocalIp == "10.0.0.7"
RemoteIp == "10.0.0.1"
UnspecIp == "0.0.0.0"

\* Socket key: <<local address, local port, remote address, remote port>>
\* (family, type and protocol are AF_INET4 / SOCK_STREAM / TCP throughout).
ActiveKeys == {<<LocalIp, 80, RemoteIp, 5000>>}
ListeningKeys == {<<LocalIp, 80, UnspecIp, 0>>, <<UnspecIp, 80, UnspecIp, 0>>}
SocketKeys == ActiveKeys \cup ListeningKeys

SeqValues == {U32(0, 1000), U32(65535, 65535)}
AckValues == {U32(0, 7)}
PayloadLens == {0, 3}

TcpSegments ==
    [src : {RemoteIp}, dst : {LocalIp}, sport : {5000, 5001}, dport : {80},
     flag_syn : BOOLEAN, flag_ack : BOOLEAN, flag_fin : BOOLEAN,
     flag_rst : BOOLEAN, seq : SeqValues, ack : AckValues,
     len : PayloadLens, valid : {TRUE}]

\* a segment that TcpParser rejects
BadSegment ==
    [src |-> RemoteIp, dst |-> LocalIp, sport |-> 5000, dport |-> 80,
     flag_syn |-> FALSE, flag_ack |-> FALSE, flag_fin |-> FALSE,
     flag_rst |-> FALSE, seq |-> U32(0, 1000), ack |-> U32(0, 7),
     len |-> 0, valid |-> FALSE]

NoSegment == [valid |-> FALSE, none |-> TRUE]

\* str(packet_rx_md): the key of the fully qualified (active) socket
MetadataKey(p) == <<p.dst, p.dport, p.src, p.sport>>

\* packet_rx_md.tcp_listening_socket_patterns, most specific first
tcp_listening_socket_patterns(p) ==
    << <<p.dst, p.dport, UnspecIp, 0>>, <<UnspecIp, p.dport, UnspecIp, 0>> >>

\* "SYN set, ACK/FIN/RST clear"
IsInitialSyn(p) == p.flag_syn /\ ~(p.flag_ack \/ p.flag_fin \/ p.flag_rst)

\* first pattern that has a socket, 0 if none
FirstListening(p, table) ==
    LET pats == tcp_listening_socket_patterns(p)
        hits == {i \in 1..Len(pats) : pats[i] \in table}
    IN IF hits = {} THEN 0 ELSE CHOOSE i \in hits : \A j \in hits : i <= j

ZeroStats ==
    [tcp__pre_parse |-> 0, tcp__failed_parse__drop |-> 0,
     tcp__socket_match_active__forward_to_socket |-> 0,
     tcp__socket_match_listening__forward_to_socket |-> 0,
     tcp__no_socket_match__rst__drop |-> 0,
     tcp__no_socket_match__respond_rst |-> 0,
     ip6_ext_frag__pre_parse |-> 0, ip6_ext_frag__failed_parse |-> 0,
     ip6_ext_frag__defrag |-> 0]

Bump(stats, names) ==
    [n \in DOMAIN stats |-> IF n \in names THEN stats[n] + 1 ELSE stats[n]]

\* variant of RstReply: the FIN flag is not counted in the acknowledgment
RstReply_NoFin(p) ==
    [src |-> p.dst, dst |-> p.src, sport |-> p.dport, dport |-> p.sport,
     seq |-> U32(0, 0),
     ack |-> AddInt(p.seq, BoolInt(p.flag_syn) + p.len),
     flag_rst |-> TRUE, flag_ack |-> TRUE,
     flag_syn |-> FALSE, flag_fin |-> FALSE]

\* the RST reply handed to _phtx_tcp
RstReply(p) ==
    [src |-> p.dst, dst |-> p.src, sport |-> p.dport, dport |-> p.sport,
     seq |-> U32(0, 0),
     ack |-> AddInt(p.seq, BoolInt(p.flag_syn) + BoolInt(p.flag_fin) + p.len),
     flag_rst |-> TRUE, flag_ack |-> TRUE,
     flag_syn |-> FALSE, flag_fin |-> FALSE]

\* variant of PhrxTcpOutcome: an unmatched RST is answered like any other
PhrxTcpOutcome_ReplyToRst(p, table) ==
    IF ~p.valid
    THEN [bump |-> {"tcp__pre_parse", "tcp__failed_parse__drop"},
          fwd |-> {}, tx |-> <<>>]
    ELSE IF MetadataKey(p) \in table
    THEN [bump |-> {"tcp__pre_parse",
                    "tcp__socket_match_active__forward_to_socket"},
          fwd |-> {MetadataKey(p)}, tx |-> <<>>]
    ELSE IF IsInitialSyn(p) /\ FirstListening(p, table) # 0
    THEN [bump |-> {"tcp__pre_parse",
                    "tcp__socket_match_listening__forward_to_socket"},
          fwd |-> {tcp_listening_socket_patterns(p)[FirstListening(p, table)]},
          tx |-> <<>>]
    ELSE [bump |-> {"tcp__pre_parse", "tcp__no_socket_match__respond_rst"},
          fwd |-> {}, tx |-> <<RstReply(p)>>]

\* variant of PhrxTcpOutcome: listening sockets are looked up before the
\* fully qualified socket
PhrxTcpOutcome_ListeningFirst(p, table) ==
    IF ~p.valid
    THEN [bump |-> {"tcp__pre_parse", "tcp__failed_parse__drop"},
          fwd |-> {}, tx |-> <<>>]
    ELSE IF IsInitialSyn(p) /\ FirstListening(p, table) # 0
    THEN [bump |-> {"tcp__pre_parse",
                    "tcp__socket_match_listening__forward_to_socket"},
          fwd |-> {tcp_listening_socket_patterns(p)[FirstListening(p, table)]},
          tx |-> <<>>]
    ELSE IF MetadataKey(p) \in table
    THEN [bump |-> {"tcp__pre_parse",
                    "tcp__socket_match_active__forward_to_socket"},
          fwd |-> {MetadataKey(p)}, tx |-> <<>>]
    ELSE IF p.flag_rst
    THEN [bump |-> {"tcp__pre_parse", "tcp__no_socket_match__rst__drop"},
          fwd |-> {}, tx |-> <<>>]
    ELSE [bump |-> {"tcp__pre_parse", "tcp__no_socket_match__respond_rst"},
          fwd |-> {}, tx |-> <<RstReply(p)>>]

\* variant of PhrxTcpOutcome: a segment that failed to parse is handled like
\* one that parsed
PhrxTcpOutcome_ParseIgnored(p, table) ==
    IF MetadataKey(p) \in table
    THEN [bump |-> {"tcp__pre_parse",
                    "tcp__socket_match_active__forward_to_socket"},
          fwd |-> {MetadataKey(p)}, tx |-> <<>>]
    ELSE IF IsInitialSyn(p) /\ FirstListening(p, table) # 0
    THEN [bump |-> {"tcp__pre_parse",
                    "tcp__socket_match_listening__forward_to_socket"},
          fwd |-> {tcp_listening_socket_patterns(p)[FirstListening(p, table)]},
          tx |-> <<>>]
    ELSE IF p.flag_rst
    THEN [bump |-> {"tcp__pre_parse", "tcp__no_socket_match__rst__drop"},
          fwd |-> {}, tx |-> <<>>]
    ELSE [bump |-> {"tcp__pre_parse", "tcp__no_socket_match__respond_rst"},
          fwd |-> {}, tx |-> <<RstReply(p)>>]

\* variant of PhrxTcpOutcome: a listening socket gets every segment that has
\* SYN set
PhrxTcpOutcome_AnySyn(p, table) ==
    IF ~p.valid
    THEN [bump |-> {"tcp__pre_parse", "tcp__failed_parse__drop"},
          fwd |-> {}, tx |-> <<>>]
    ELSE IF MetadataKey(p) \in table
    THEN [bump |-> {"tcp__pre_parse",
                    "tcp__socket_match_active__forward_to_socket"},
          fwd |-> {MetadataKey(p)}, tx |-> <<>>]
    ELSE IF p.flag_syn /\ FirstListening(p, table) # 0
    THEN [bump |-> {"tcp__pre_parse",
                    "tcp__socket_match_listening__forward_to_socket"},
          fwd |-> {tcp_listening_socket_patterns(p)[FirstListening(p, table)]},
          tx |-> <<>>]
    ELSE IF p.flag_rst
    THEN [bump |-> {"tcp__pre_parse", "tcp__no_socket_match__rst__drop"},
          fwd |-> {}, tx |-> <<>>]
    ELSE [bump |-> {"tcp__pre_parse", "tcp__no_socket_match__respond_rst"},
          fwd |-> {}, tx |-> <<RstReply(p)>>]

\* what _phrx_tcp does with segment p: the counters it bumps, the socket it
\* forwards to, the segments it transmits
PhrxTcpOutcome(p, table) ==
    IF ~p.valid
    THEN [bump |-> {"tcp__pre_parse", "tcp__failed_parse__drop"},
          fwd |-> {}, tx |-> <<>>]
    ELSE IF MetadataKey(p) \in table
    THEN [bump |-> {"tcp__pre_parse",
                    "tcp__socket_match_active__forward_to_socket"},
          fwd |-> {MetadataKey(p)}, tx |-> <<>>]
    ELSE IF IsInitialSyn(p) /\ FirstListening(p, table) # 0
    THEN [bump |-> {"tcp__pre_parse",
                    "tcp__socket_match_listening__forward_to_socket"},
          fwd |-> {tcp_listening_socket_patterns(p)[FirstListening(p, table)]},
          tx |-> <<>>]
    ELSE IF p.flag_rst
    THEN [bump |-> {"tcp__pre_parse", "tcp__no_socket_match__rst__drop"},
          fwd |-> {}, tx |-> <<>>]
    ELSE [bump |-> {"tcp__pre_parse", "tcp__no_socket_match__respond_rst"},
          fwd |-> {}, tx |-> <<RstReply(p)>>]

\* _phrx_tcp(packet_rx)
PhrxTcp(p) ==
    /\ packet_stats_rx.tcp__pre_parse < MaxTcpRx
    /\ frag_out.kind # "error"
    /\ LET out == PhrxTcpOutcome(p, sockets) IN
        /\ packet_stats_rx' = Bump(packet_stats_rx, out.bump)
        /\ tcp_fwd' = out.fwd
        /\ tcp_tx' = out.tx
    /\ packet_rx' = p
    /\ UNCHANGED <<sockets>>
    /\ UNCHANGED fragVars
    /\ UNCHANGED libVars
    /\ UNCHANGED extVars

\* a socket is entered into the socket table (listen / connect / accept)
SocketOpen(k) ==
    /\ k \notin sockets
    /\ sockets' = sockets \cup {k}
    /\ UNCHANGED <<packet_stats_rx, packet_rx, tcp_fwd, tcp_tx>>
    /\ UNCHANGED fragVars
    /\ UNCHANGED libVars
    /\ UNCHANGED extVars

\* a socket is removed from the socket table (close)
SocketClose(k) ==
    /\ k \in sockets
    /\ sockets' = sockets \ {k}
    /\ UNCHANGED <<packet_stats_rx, packet_rx, tcp_fwd, tcp_tx>>
    /\ UNCHANGED fragVars
    /\ UNCHANGED libVars
    /\ UNCHANGED extVars

-----------------------------------------------------------------------------
(* IPv6 fragment reassembly *)

\* config.IP6__FRAG_FLOW_TIMEOUT (seconds); a configuration value
IP6__FRAG_FLOW_TIMEOUT == 1

FragSrc == "2001:db8::2"
FragDst == "2001:db8::1"
FragIds == {1}
FragOffsets == {0, 8, 16}
FragNexts == {17}

\* n bytes of value b
Fill(n, b) == [i \in 1..n |-> b]

\* fragment payloads: 8 bytes of one of two values, or 24 bytes
FragPayloads == {Fill(8, 1), Fill(8, 2), Fill(24, 1)}

\* a parsed fragment: the IPv6 header fields and the fragment header fields
ValidFragments ==
    [src : {FragSrc}, dst : {FragDst}, id : FragIds, offset : FragOffsets,
     data : FragPayloads, flag_mf : BOOLEAN, next : FragNexts, valid : {TRUE}]

\* a fragment whose extension header fails to parse
BadFragment ==
    [src |-> FragSrc, dst |-> FragDst, id |-> 1, offset |-> 0,
     data |-> Fill(8, 1), flag_mf |-> FALSE, next |-> 17, valid |-> FALSE]

Fragments == ValidFragments \cup {BadFragment}

\* variant of FlowId: the source address is left out of the key
FlowId_NoSource(fr) == <<fr.dst, fr.id>>

FlowId(fr) == <<fr.src, fr.dst, fr.id>>

\* fragments of three flows that differ in the source address or in the
\* fragment id; the payload bytes of a flow carry a value of its own
FragSrc2 == "2001:db8::3"
FlowByte(src, id) == IF src = FragSrc2 THEN 3 ELSE id
FlowFragments ==
    {[src |-> sid[1], dst |-> FragDst, id |-> sid[2], offset |-> o,
      data |-> Fill(8, FlowByte(sid[1], sid[2])), flag_mf |-> mf,
      next |-> 17, valid |-> TRUE] :
        sid \in {<<FragSrc, 1>>, <<FragSrc, 2>>, <<FragSrc2, 1>>},
        o \in {0, 8}, mf \in BOOLEAN}

\* packet_rx.ip6.header_bytes of a fragment: addresses, payload length
\* (fragment header + data) and next header (44, the fragment extension)
Ip6Header(fr) ==
    [src |-> fr.src, dst |-> fr.dst, dlen |-> 8 + Len(fr.data), next |-> 44]

NoPacket == [header |-> [src |-> "", dst |-> "", dlen |-> 0, next |-> 0],
             payload |-> <<>>]

\* "Cleanup expired flows"
CleanupFlows(flows, t) ==
    LET keep == {f \in DOMAIN flows :
                    flows[f].timestamp - t < IP6__FRAG_FLOW_TIMEOUT}
    IN [f \in keep |-> flows[f]]

\* dict assignment  d[k] = v
DictSet(d, k, v) == [x \in DOMAIN d \cup {k} |-> IF x = k THEN v ELSE d[x]]

\* del d[k]
DictDel(d, k) == [x \in DOMAIN d \ {k} |-> d[x]]

\* variant of StoreFragment: every fragment refreshes the flow's timestamp
StoreFragment_Touch(flows, fr, t) ==
    LET f == FlowId(fr) IN
    IF f \in DOMAIN flows
    THEN DictSet(flows, f,
            [flows[f] EXCEPT !.payload = DictSet(@, fr.offset, fr.data),
                             !.timestamp = t])
    ELSE DictSet(flows, f,
            [header |-> Ip6Header(fr), timestamp |-> t, last |-> FALSE,
             payload |-> DictSet(<<>>, fr.offset, fr.data)])

\* variant of StoreFragment: data arriving for an offset already stored is
\* appended to what is stored there
StoreFragment_Append(flows, fr, t) ==
    LET f == FlowId(fr) IN
    IF f \in DOMAIN flows
    THEN DictSet(flows, f,
            [flows[f] EXCEPT !.payload =
                DictSet(@, fr.offset,
                        IF fr.offset \in DOMAIN @ THEN @[fr.offset] \o fr.data
                        ELSE fr.data)])
    ELSE DictSet(flows, f,
            [header |-> Ip6Header(fr), timestamp |-> t, last |-> FALSE,
             payload |-> DictSet(<<>>, fr.offset, fr.data)])

\* "Update flow db": store the fragment, creating the flow if needed
StoreFragment(flows, fr, t) ==
    LET f == FlowId(fr) IN
    IF f \in DOMAIN flows
    THEN DictSet(flows, f,
            [flows[f] EXCEPT !.payload = DictSet(@, fr.offset, fr.data)])
    ELSE DictSet(flows, f,
            [header |-> Ip6Header(fr), timestamp |-> t, last |-> FALSE,
             payload |-> DictSet(<<>>, fr.offset, fr.data)])

\* "if not flag_mf: flow['last'] = True"
MarkLast(flows, fr) ==
    IF fr.flag_mf THEN flows
    ELSE [flows EXCEPT ![FlowId(fr)].last = TRUE]

\* sorted(payload): the offsets in increasing order
RECURSIVE SortedSeq(_)
SortedSeq(S) ==
    IF S = {} THEN <<>>
    ELSE LET m == CHOOSE x \in S : \A y \in S : x <= y
         IN <<m>> \o SortedSeq(S \ {m})

\* the loop "for offset in sorted(payload)": -1 stands for "return None",
\* otherwise the final payload_len
RECURSIVE CoverLoop(_, _, _)
CoverLoop(payload, offs, payload_len) ==
    IF offs = <<>> THEN payload_len
    ELSE IF Head(offs) > payload_len THEN -1
    ELSE CoverLoop(payload, Tail(offs),
                   Head(offs) + Len(payload[Head(offs)]))

\* variant of CoverLen: the end of the highest fragment, gaps not looked for
CoverLen_NoGapCheck(payload) ==
    LET top == CHOOSE o \in DOMAIN payload : \A q \in DOMAIN payload : q <= o
    IN top + Len(payload[top])

CoverLen(payload) == CoverLoop(payload, SortedSeq(DOMAIN payload), 0)

\* struct.pack_into(f"{len(d)}s", buf, off, d) raises struct.error when the
\* bytes do not fit into the buffer
PackFits(buf_len, off, d) == off + Len(d) <= buf_len

PackInto(buf, off, d) ==
    [i \in 1..Len(buf) |->
        IF i > off /\ i <= off + Len(d) THEN d[i - off] ELSE buf[i]]

RECURSIVE PackLoop(_, _, _)
PackLoop(buf, payload, offs) ==
    IF offs = <<>> THEN buf
    ELSE PackLoop(PackInto(buf, Head(offs), payload[Head(offs)]),
                  payload, Tail(offs))

\* "Defragment packet": bytearray(payload_len) filled in offset order
Defragment(payload, payload_len) ==
    PackLoop(Fill(payload_len, 0), payload, SortedSeq(DOMAIN payload))

DefragmentFails(payload, payload_len) ==
    \E off \in DOMAIN payload : ~PackFits(payload_len, off, payload[off])

\* variant of FlowsAfterDefragment: the flow is left in the table
FlowsAfterDefragment_Keep(flows, f) == flows

\* the flow table once the datagram has been assembled
FlowsAfterDefragment(flows, f) == DictDel(flows, f)

\* the defragmented packet: stored header with the payload length and the
\* next header (of the fragment being handled) written into it
DefragmentedPacket(entry, fr, payload_len) ==
    [header |-> [entry.header EXCEPT !.dlen = payload_len, !.next = fr.next],
     payload |-> Defragment(entry.payload, payload_len)]

\* __defragment_ip6_packet(packet_rx) at time t: the resulting flow table,
\* the result ("none" = return None, "error" = struct.error raised) and the
\* fragments the flow held when completeness was tested
DefragmentIp6Packet(flows, fr, t) ==
    LET f == FlowId(fr)
        flows1 == MarkLast(StoreFragment(CleanupFlows(flows, t), fr, t), fr)
        entry == flows1[f]
        payload_len == CoverLen(entry.payload)
    IN IF ~entry.last \/ payload_len = -1
       THEN [flows |-> flows1, result |-> "none", packet |-> NoPacket,
             stored |-> entry.payload]
       ELSE IF DefragmentFails(entry.payload, payload_len)
       THEN [flows |-> flows1, result |-> "error", packet |-> NoPacket,
             stored |-> entry.payload]
       ELSE [flows |-> FlowsAfterDefragment(flows1, f), result |-> "packet",
             packet |-> DefragmentedPacket(entry, fr, payload_len),
             stored |-> entry.payload]

\* History of a flow since its creation.  It is not program state: it is
\* kept so that the properties can refer to what the flow has received.
\*   final_end  end of the MF=0 fragment received (the smallest such end if
\*              several MF=0 fragments were received), -1 if none
\*   clean      the fragments received so far are pairwise disjoint, at most
\*              one has MF=0, and none lies beyond the MF=0 fragment
\*   bytes      the bytes received, by position, later arrivals overwriting
NoHistory == [final_end |-> -1, clean |-> TRUE, bytes |-> <<>>]

FragEnd(fr) == fr.offset + Len(fr.data)

History(seen, stored, fr) ==
    LET disjoint == \A o \in DOMAIN stored :
                        o + Len(stored[o]) <= fr.offset \/ FragEnd(fr) <= o
        ordered == IF fr.flag_mf
                   THEN seen.final_end = -1 \/ FragEnd(fr) <= seen.final_end
                   ELSE /\ seen.final_end = -1
                        /\ \A o \in DOMAIN stored :
                              o + Len(stored[o]) <= fr.offset
        covered == (fr.offset)..(FragEnd(fr) - 1)
    IN [final_end |-> IF fr.flag_mf THEN seen.final_end
                      ELSE IF seen.final_end = -1 THEN FragEnd(fr)
                      ELSE IF FragEnd(fr) < seen.final_end THEN FragEnd(fr)
                      ELSE seen.final_end,
        clean |-> seen.clean /\ disjoint /\ ordered,
        bytes |-> [i \in DOMAIN seen.bytes \cup covered |->
                     IF i \in covered THEN fr.data[i - fr.offset + 1]
                     ELSE seen.bytes[i]]]

\* what the last call did: the result, the packet passed on to _phrx_ip6,
\* and facts about the call that the properties refer to
NoOutcome ==
    [kind |-> "none", flow |-> <<>>, packet |-> NoPacket, flag_mf |-> FALSE,
     stored |-> <<>>, history |-> NoHistory, dup |-> FALSE, fresh |-> FALSE,
     redo |-> FALSE, late |-> FALSE]

\* _phrx_ip6_ext_frag(packet_rx).  struct.error is caught neither here nor in
\* __defragment_ip6_packet: it leaves the handler, and no further packet is
\* handled after it.
PhrxIp6ExtFrag(fr) ==
    /\ packet_stats_rx.ip6_ext_frag__pre_parse < MaxFragRx
    /\ frag_out.kind # "error"
    /\ IF ~fr.valid
       THEN /\ packet_stats_rx' =
                  Bump(packet_stats_rx,
                       {"ip6_ext_frag__pre_parse", "ip6_ext_frag__failed_parse"})
            /\ frag_out' = [NoOutcome EXCEPT !.kind = "failed_parse"]
            /\ UNCHANGED <<ip6_frag_flows, frag_seen, frag_done>>
       ELSE LET f == FlowId(fr)
                out == DefragmentIp6Packet(ip6_frag_flows, fr, now)
                flows0 == CleanupFlows(ip6_frag_flows, now)
                existed == f \in DOMAIN flows0
                stored0 == IF existed THEN flows0[f].payload ELSE <<>>
                seen0 == IF existed THEN frag_seen[f] ELSE NoHistory
                hist == History(seen0, stored0, fr)
                delivered == out.result = "packet"
            IN  /\ ip6_frag_flows' = out.flows
                /\ packet_stats_rx' =
                      Bump(packet_stats_rx,
                           IF delivered
                           THEN {"ip6_ext_frag__pre_parse",
                                 "ip6_ext_frag__defrag"}
                           ELSE {"ip6_ext_frag__pre_parse"})
                /\ frag_out' =
                      [kind |-> CASE out.result = "packet" -> "delivered"
                                  [] out.result = "error" -> "error"
                                  [] OTHER -> "stored",
                       flow |-> f,
                       packet |-> out.packet,
                       flag_mf |-> fr.flag_mf,
                       stored |-> out.stored,
                       history |-> hist,
                       dup |-> /\ existed
                               /\ fr.offset \in DOMAIN stored0
                               /\ stored0[fr.offset] = fr.data
                               /\ (fr.flag_mf \/ flows0[f].last),
                       fresh |-> ~existed,
                       redo |-> f \in frag_done,
                       late |-> existed /\ flows0[f].timestamp < now]
                /\ frag_seen' =
                      [g \in DOMAIN out.flows |->
                          IF g = f THEN hist ELSE frag_seen[g]]
                /\ frag_done' = IF delivered THEN frag_done \cup {f}
                                ELSE frag_done
    /\ UNCHANGED <<now>>
    /\ UNCHANGED tcpVars
    /\ UNCHANGED libVars
    /\ UNCHANGED extVars

\* time passes
Tick ==
    /\ now < MaxTime
    /\ now' = now + 1
    /\ UNCHANGED <<ip6_frag_flows, frag_out, frag_seen, frag_done>>
    /\ UNCHANGED packet_stats_rx
    /\ UNCHANGED tcpVars
    /\ UNCHANGED libVars
    /\ UNCHANGED extVars

-----------------------------------------------------------------------------
(* ICMPv6 parser (Icmp6Parser).  A frame is a sequence of bytes; Python's    *)
(* frame[i] is frame[i + 1] here.                                            *)

\* Python's  b[lo:hi]
Slice(b, lo, hi) ==
    SubSeq(b, lo + 1, IF hi < Len(b) THEN hi ELSE Len(b))

\* Python's  b[lo:]
SliceFrom(b, lo) == SubSeq(b, lo + 1, Len(b))

\* sum of the n 16-bit big-endian words of b that start at position i, an
\* odd last byte being padded with a zero byte (the words are added up by
\* halves to keep the evaluation shallow for long frames)
RECURSIVE SumWordsIn(_, _, _)
SumWordsIn(b, i, n) ==
    IF n <= 0 THEN 0
    ELSE IF n = 1
    THEN b[i] * 256 + (IF i + 1 <= Len(b) THEN b[i + 1] ELSE 0)
    ELSE SumWordsIn(b, i, n \div 2)
         + SumWordsIn(b, i + 2 * (n \div 2), n - (n \div 2))

\* sum of the 16-bit big-endian words of b from position i on
SumWords(b, i) == SumWordsIn(b, i, (Len(b) - i + 2) \div 2)

\* end-around carry
FoldCarry(s) ==
    LET f == (s % 65536) + (s \div 65536)
    IN (f % 65536) + (f \div 65536)

\* inet_cksum(data, init): the one's-complement Internet checksum; it is 0
\* over data that holds a correct checksum
inet_cksum(data, init) == 65535 - FoldCarry(SumWords(data, 1) + init)

\* lengths of the fixed parts of the messages
ICMP6__HEADER__LEN == 4
ICMP6__DESTINATION_UNREACHABLE__LEN == 8
ICMP6__ECHO_REQUEST__LEN == 8
ICMP6__ECHO_REPLY__LEN == 8
ICMP6__ND__ROUTER_SOLICITATION__LEN == 8
ICMP6__ND__ROUTER_ADVERTISEMENT__LEN == 16
ICMP6__ND__NEIGHBOR_SOLICITATION__LEN == 24
ICMP6__ND__NEIGHBOR_ADVERTISEMENT__LEN == 24
ICMP6__MLD2__REPORT__LEN == 8
ICMP6__MLD2__MULTICAST_ADDRESS_RECORD__LEN == 20

\* Icmp6Type values
Icmp6Type ==
    [DESTINATION_UNREACHABLE |-> 1, ECHO_REQUEST |-> 128, ECHO_REPLY |-> 129,
     ND__ROUTER_SOLICITATION |-> 133, ND__ROUTER_ADVERTISEMENT |-> 134,
     ND__NEIGHBOR_SOLICITATION |-> 135, ND__NEIGHBOR_ADVERTISEMENT |-> 136,
     MLD2__REPORT |-> 143]

\* Ip6Address: 16 bytes in network order, and its predicates
Ip6Unspecified == Fill(16, 0)
Ip6AllNodes == <<255, 2, 0, 0, 0, 0, 0, 0, 0, 0, 0, 0, 0, 0, 0, 1>>
Ip6AllRouters == <<255, 2, 0, 0, 0, 0, 0, 0, 0, 0, 0, 0, 0, 0, 0, 2>>

is_unspecified(a) == a = Ip6Unspecified
is_loopback(a) == a = <<0, 0, 0, 0, 0, 0, 0, 0, 0, 0, 0, 0, 0, 0, 0, 1>>
is_global(a) == a[1] \div 32 = 1
is_private(a) == a[1] \div 2 = 126
is_link_local(a) == a[1] = 254 /\ a[2] \div 64 = 2
is_multicast(a) == a[1] = 255
is_unicast(a) ==
    is_global(a) \/ is_private(a) \/ is_link_local(a) \/ is_loopback(a)

\* ff02::1:ffXX:XXXX with the low 24 bits of a
solicited_node_multicast(a) ==
    <<255, 2, 0, 0, 0, 0, 0, 0, 0, 0, 0, 1, 255, a[14], a[15], a[16]>>

\* _nd_option_integrity_check(offset): "ok", "integrity" (Icmp6IntegrityError)
\* or "IndexError" (frame[offset + 1] read past the end of the frame)
RECURSIVE NdOptionIntegrityCheck(_, _)
NdOptionIntegrityCheck(frame, offset) ==
    IF ~(offset < Len(frame)) THEN "ok"
    ELSE IF offset + 1 > Len(frame) THEN "integrity"
    ELSE IF ~(offset + 1 < Len(frame)) THEN "IndexError"
    ELSE IF frame[offset + 2] = 0 THEN "integrity"
    ELSE IF offset + frame[offset + 2] * 8 > Len(frame) THEN "integrity"
    ELSE NdOptionIntegrityCheck(frame, offset + frame[offset + 2] * 8)

\* "not LEN <= self._ip6__dlen <= len(self._frame)"
WrongLength(p, min_len) == ~(min_len <= p.dlen /\ p.dlen <= Len(p.frame))

\* the MLDv2 Report branch of _validate_integrity: with no record the offset
\* must equal dlen; with a record that fits, int.from_bytes(self._frame,
\* offset + 2) is called with an int as byte order and raises TypeError
Mld2IntegrityCheck(p) ==
    LET records == p.frame[7] * 256 + p.frame[8]
    IN IF records = 0
       THEN IF ICMP6__MLD2__REPORT__LEN # p.dlen THEN "integrity" ELSE "ok"
       ELSE IF ICMP6__MLD2__REPORT__LEN
                  + ICMP6__MLD2__MULTICAST_ADDRESS_RECORD__LEN > p.dlen
       THEN "integrity"
       ELSE "TypeError"

\* _validate_integrity()
Icmp6ValidateIntegrity(p) ==
    IF inet_cksum(Slice(p.frame, 0, p.dlen), p.pshdr_sum) # 0
    THEN "integrity"
    ELSE IF WrongLength(p, ICMP6__HEADER__LEN) THEN "integrity"
    ELSE CASE p.frame[1] = Icmp6Type.DESTINATION_UNREACHABLE ->
                IF WrongLength(p, ICMP6__DESTINATION_UNREACHABLE__LEN)
                THEN "integrity" ELSE "ok"
           [] p.frame[1] = Icmp6Type.ECHO_REQUEST ->
                IF WrongLength(p, ICMP6__ECHO_REQUEST__LEN)
                THEN "integrity" ELSE "ok"
           [] p.frame[1] = Icmp6Type.ECHO_REPLY ->
                IF WrongLength(p, ICMP6__ECHO_REPLY__LEN)
                THEN "integrity" ELSE "ok"
           [] p.frame[1] = Icmp6Type.ND__ROUTER_SOLICITATION ->
                IF WrongLength(p, ICMP6__ND__ROUTER_SOLICITATION__LEN)
                THEN "integrity"
                ELSE NdOptionIntegrityCheck(p.frame,
                        ICMP6__HEADER__LEN
                        + ICMP6__ND__ROUTER_SOLICITATION__LEN)
           [] p.frame[1] = Icmp6Type.ND__ROUTER_ADVERTISEMENT ->
                IF WrongLength(p, ICMP6__ND__ROUTER_ADVERTISEMENT__LEN)
                THEN "integrity"
                ELSE NdOptionIntegrityCheck(p.frame,
                        ICMP6__ND__ROUTER_ADVERTISEMENT__LEN)
           [] p.frame[1] = Icmp6Type.ND__NEIGHBOR_SOLICITATION ->
                IF WrongLength(p, ICMP6__ND__NEIGHBOR_SOLICITATION__LEN)
                THEN "integrity"
                ELSE NdOptionIntegrityCheck(p.frame,
                        ICMP6__ND__ROUTER_SOLICITATION__LEN)
           [] p.frame[1] = Icmp6Type.ND__NEIGHBOR_ADVERTISEMENT ->
                IF WrongLength(p, ICMP6__ND__NEIGHBOR_ADVERTISEMENT__LEN)
                THEN "integrity"
                ELSE NdOptionIntegrityCheck(p.frame,
                        ICMP6__ND__ROUTER_ADVERTISEMENT__LEN)
           [] p.frame[1] = Icmp6Type.MLD2__REPORT ->
                IF WrongLength(p, ICMP6__MLD2__REPORT__LEN)
                THEN "integrity"
                ELSE Mld2IntegrityCheck(p)
           [] OTHER -> "ok"

\* Icmp6NdOptions.from_bytes: the options one after another, each as
\* [type, data]; a length field of 0 ends the walk
RECURSIVE NdOptionsFromBytes(_)
NdOptionsFromBytes(b) ==
    IF Len(b) < 2 \/ b[2] = 0 THEN <<>>
    ELSE <<[type |-> b[1], data |-> Slice(b, 2, b[2] * 8)]>>
         \o NdOptionsFromBytes(SliceFrom(b, b[2] * 8))

NoMessage ==
    [kind |-> "none", target_address |-> <<>>, flag_s |-> FALSE,
     options |-> <<>>]

\* _parse(): the message class chosen by the type byte and its from_bytes.
\* There is no case for MLD2__REPORT: such a frame becomes an
\* Icmp6UnknownMessage.
Icmp6Parse(frame) ==
    CASE frame[1] = Icmp6Type.DESTINATION_UNREACHABLE ->
            [NoMessage EXCEPT !.kind = "Icmp6DestinationUnreachableMessage"]
      [] frame[1] = Icmp6Type.ECHO_REQUEST ->
            [NoMessage EXCEPT !.kind = "Icmp6EchoRequestMessage"]
      [] frame[1] = Icmp6Type.ECHO_REPLY ->
            [NoMessage EXCEPT !.kind = "Icmp6EchoReplyMessage"]
      [] frame[1] = Icmp6Type.ND__ROUTER_SOLICITATION ->
            [NoMessage EXCEPT
                !.kind = "Icmp6NdRouterSolicitationMessage",
                !.options = NdOptionsFromBytes(
                    SliceFrom(frame, ICMP6__ND__ROUTER_SOLICITATION__LEN))]
      [] frame[1] = Icmp6Type.ND__ROUTER_ADVERTISEMENT ->
            [NoMessage EXCEPT
                !.kind = "Icmp6NdRouterAdvertisementMessage",
                !.options = NdOptionsFromBytes(
                    SliceFrom(frame, ICMP6__ND__ROUTER_ADVERTISEMENT__LEN))]
      [] frame[1] = Icmp6Type.ND__NEIGHBOR_SOLICITATION ->
            [NoMessage EXCEPT
                !.kind = "Icmp6NdNeighborSolicitationMessage",
                !.target_address = Slice(frame, 8, 24),
                !.options = NdOptionsFromBytes(
                    SliceFrom(frame, ICMP6__ND__NEIGHBOR_SOLICITATION__LEN))]
      [] frame[1] = Icmp6Type.ND__NEIGHBOR_ADVERTISEMENT ->
            [NoMessage EXCEPT
                !.kind = "Icmp6NdNeighborAdvertisementMessage",
                !.target_address = Slice(frame, 8, 24),
                !.flag_s = ((frame[5] \div 64) % 2 = 1),
                !.options = NdOptionsFromBytes(
                    SliceFrom(frame, ICMP6__ND__NEIGHBOR_ADVERTISEMENT__LEN))]
      [] OTHER -> [NoMessage EXCEPT !.kind = "Icmp6UnknownMessage"]

\* message.option_slla is set: the options hold a Source Link-Layer Address
\* option (type 1)
HasOptionSlla(m) == \E i \in 1..Len(m.options) : m.options[i].type = 1

\* _validate_sanity(), Router Solicitation: "ok" or "sanity"
\* (Icmp6SanityError)
RouterSolicitationSanity(m, p) ==
    IF ~(p.hop = 255) THEN "sanity"
    ELSE IF ~(is_unicast(p.src) \/ is_unspecified(p.src)) THEN "sanity"
    ELSE IF ~(p.dst = Ip6AllRouters) THEN "sanity"
    ELSE IF is_unspecified(p.src) /\ HasOptionSlla(m) THEN "sanity"
    ELSE "ok"

\* variant of RouterAdvertisementSanity: the hop limit is not looked at
RouterAdvertisementSanity_AnyHop(m, p) ==
    IF ~is_link_local(p.src) THEN "sanity"
    ELSE IF ~(is_unicast(p.dst) \/ p.dst = Ip6AllNodes) THEN "sanity"
    ELSE "ok"

\* _validate_sanity(), Router Advertisement
RouterAdvertisementSanity(m, p) ==
    IF ~(p.hop = 255) THEN "sanity"
    ELSE IF ~is_link_local(p.src) THEN "sanity"
    ELSE IF ~(is_unicast(p.dst) \/ p.dst = Ip6AllNodes) THEN "sanity"
    ELSE "ok"

\* variant of NeighborSolicitationSanity: the target address is not required
\* to be unicast
NeighborSolicitationSanity_AnyTarget(m, p) ==
    IF ~(p.hop = 255) THEN "sanity"
    ELSE IF ~(is_unicast(p.src) \/ is_unspecified(p.src)) THEN "sanity"
    ELSE IF p.dst \notin {m.target_address,
                          solicited_node_multicast(m.target_address)}
    THEN "sanity"
    ELSE IF is_unspecified(p.src) /\ HasOptionSlla(m) THEN "sanity"
    ELSE "ok"

\* _validate_sanity(), Neighbor Solicitation
NeighborSolicitationSanity(m, p) ==
    IF ~(p.hop = 255) THEN "sanity"
    ELSE IF ~(is_unicast(p.src) \/ is_unspecified(p.src)) THEN "sanity"
    ELSE IF p.dst \notin {m.target_address,
                          solicited_node_multicast(m.target_address)}
    THEN "sanity"
    ELSE IF ~is_unicast(m.target_address) THEN "sanity"
    ELSE IF is_unspecified(p.src) /\ HasOptionSlla(m) THEN "sanity"
    ELSE "ok"

\* variant of NeighborAdvertisementSanity: with flag_s clear any unicast
\* destination is let through as well
NeighborAdvertisementSanity_UnicastUnsolicited(m, p) ==
    IF ~(p.hop = 255) THEN "sanity"
    ELSE IF ~is_unicast(p.src) THEN "sanity"
    ELSE IF ~(is_unicast(p.dst) \/ p.dst = Ip6AllNodes) THEN "sanity"
    ELSE "ok"

\* _validate_sanity(), Neighbor Advertisement
NeighborAdvertisementSanity(m, p) ==
    IF ~(p.hop = 255) THEN "sanity"
    ELSE IF ~is_unicast(p.src) THEN "sanity"
    ELSE IF m.flag_s /\ ~(is_unicast(p.dst) \/ p.dst = Ip6AllNodes)
    THEN "sanity"
    ELSE IF ~m.flag_s /\ ~(p.dst = Ip6AllNodes) THEN "sanity"
    ELSE "ok"

\* _validate_sanity(), MLDv2 Report
Mld2ReportSanity(m, p) == IF ~(p.hop = 1) THEN "sanity" ELSE "ok"

\* _validate_sanity(): the checks of the class the message is an instance of
Icmp6ValidateSanity(m, p) ==
    CASE m.kind = "Icmp6NdRouterSolicitationMessage" ->
            RouterSolicitationSanity(m, p)
      [] m.kind = "Icmp6NdRouterAdvertisementMessage" ->
            RouterAdvertisementSanity(m, p)
      [] m.kind = "Icmp6NdNeighborSolicitationMessage" ->
            NeighborSolicitationSanity(m, p)
      [] m.kind = "Icmp6NdNeighborAdvertisementMessage" ->
            NeighborAdvertisementSanity(m, p)
      [] m.kind = "Icmp6Mld2ReportMessage" -> Mld2ReportSanity(m, p)
      [] OTHER -> "ok"

\* Icmp6Parser(packet_rx): how the construction ends ("ok", "integrity",
\* "sanity", or the name of another exception) and the parsed message
Icmp6ParserInit(p) ==
    LET integrity == Icmp6ValidateIntegrity(p)
        m == Icmp6Parse(p.frame)
    IN IF integrity # "ok"
       THEN [result |-> integrity, integrity_ok |-> FALSE,
             message |-> NoMessage, packet_rx |-> p]
       ELSE [result |-> Icmp6ValidateSanity(m, p), integrity_ok |-> TRUE,
             message |-> m, packet_rx |-> p]

\* addresses used in the inbound ICMPv6 packets
Ip6Doc1 == <<32, 1, 13, 184, 0, 0, 0, 0, 0, 0, 0, 0, 0, 0, 0, 1>>
Ip6Doc2 == <<32, 1, 13, 184, 0, 0, 0, 0, 0, 0, 0, 0, 0, 0, 0, 2>>
Ip6SixToFour == <<32, 2, 0, 0, 0, 0, 0, 0, 0, 0, 0, 0, 0, 0, 0, 1>>
Ip6Doc1Subnet == <<32, 1, 13, 184, 0, 0, 0, 0, 0, 1, 0, 0, 0, 0, 0, 1>>
Ip6Multicast5 == <<255, 2, 0, 0, 0, 0, 0, 0, 0, 0, 0, 0, 0, 0, 0, 5>>
Ip6LinkLocal1 == <<254, 128, 0, 0, 0, 0, 0, 0, 0, 0, 0, 0, 0, 0, 0, 1>>

\* ND options as bytes: a Source and a Target Link-Layer Address option, an
\* option with length field 0, an option longer than what follows, one byte
OptSlla == <<1, 1, 0, 17, 34, 51, 68, 85>>
OptTlla == <<2, 1, 0, 17, 34, 51, 68, 85>>
OptZeroLen == <<1, 0, 0, 17, 34, 51, 68, 85>>
OptTooLong == <<1, 2, 0, 17, 34, 51, 68, 85>>
OptOneByte == <<1>>

\* frames with the checksum field still zero
RsFrame(opts) == <<133, 0, 0, 0, 0, 0, 0, 0>> \o opts
RaFrame(opts) ==
    <<134, 0, 0, 0, 64, 0, 0, 0, 0, 0, 0, 0, 0, 0, 0, 0>> \o opts
NsFrame(target, opts) == <<135, 0, 0, 0, 0, 0, 0, 0>> \o target \o opts
NaFrame(flags, target, opts) ==
    <<136, 0, 0, 0, flags, 0, 0, 0>> \o target \o opts
Mld2Frame(records, rest) == <<143, 0, 0, 0, 0, 0, 0, records>> \o rest

\* the frame with its checksum field filled in for the declared length
WithCksum(frame, dlen, pshdr_sum) ==
    LET c == inet_cksum(Slice(frame, 0, dlen), pshdr_sum)
    IN [frame EXCEPT ![3] = c \div 256, ![4] = c % 256]

\* a frame with a correct checksum, its declared length being its length
Good(frame) == [frame |-> WithCksum(frame, Len(frame), 0),
                dlen |-> Len(frame)]

\* frames that are not Neighbor Discovery messages
OtherFrames ==
    {[frame |-> <<>>, dlen |-> 0],
     [frame |-> <<200, 0, 55>>, dlen |-> 3],
     Good(<<200, 0, 0, 0>>),
     Good(<<1, 4, 0, 0, 0, 0, 0, 0>>),
     Good(<<128, 0, 0, 0, 0, 1, 0, 1>>),
     Good(<<128, 0, 0, 0>>),
     Good(<<129, 0, 0, 0, 0, 1, 0, 1>>),
     [frame |-> WithCksum(<<128, 0, 0, 0, 0, 1, 0, 1, 9, 9, 9, 9>>, 8, 0),
      dlen |-> 8],
     [frame |-> WithCksum(<<128, 0, 0, 0, 0, 1, 0, 1>>, 8, 0), dlen |-> 12],
     [frame |-> <<128, 0, 0, 0, 0, 1, 0, 1>>, dlen |-> 8],
     [frame |-> <<143, 0, 112, 255, 0, 0, 0, 0>>, dlen |-> 8],
     Good(Mld2Frame(0, <<0, 0, 0, 0>>)),
     Good(Mld2Frame(1, <<>>)),
     Good(Mld2Frame(1, Fill(4, 0) \o Ip6Multicast5))}

\* Router Solicitations and Router Advertisements
RouterFrames ==
    {Good(RsFrame(opts)) : opts \in {<<>>, OptSlla, Fill(5, 1)}}
    \cup {Good(RaFrame(opts)) :
            opts \in {<<>>, OptSlla, OptZeroLen, OptTooLong, OptOneByte}}

\* Neighbor Solicitations and Neighbor Advertisements
NeighborFrames ==
    {Good(NsFrame(t, opts)) :
        t \in {Ip6Doc1, Ip6SixToFour, Ip6Multicast5},
        opts \in {<<>>, OptSlla, OptOneByte}}
    \cup {Good(NsFrame(Ip6SixToFour, OptZeroLen)),
          Good(<<135, 0, 0, 0, 0, 0, 0, 0>>),
          [frame |-> NsFrame(Ip6SixToFour, <<>>), dlen |-> 24]}
    \cup {Good(NaFrame(flags, t, opts)) :
            flags \in {0, 64}, t \in {Ip6Doc1, Ip6Doc1Subnet},
            opts \in {<<>>, OptTlla}}
    \cup {Good(NaFrame(160, Ip6Doc1Subnet, OptOneByte))}

Icmp6Frames == OtherFrames \cup RouterFrames \cup NeighborFrames

Icmp6Hops == {255, 64, 1}
Icmp6Srcs == {Ip6Doc2, Ip6Unspecified, Ip6AllNodes, Ip6LinkLocal1}
Icmp6Dsts ==
    {Ip6SixToFour, solicited_node_multicast(Ip6SixToFour), Ip6Multicast5,
     Ip6AllNodes, Ip6AllRouters}

\* inbound packets handed to the parser: the frame and the fields the parser
\* takes from the IPv6 header
Icmp6Packets ==
    {[frame |-> f.frame, dlen |-> f.dlen, pshdr_sum |-> 0,
      src |-> s, dst |-> d, hop |-> h] :
        f \in Icmp6Frames, s \in Icmp6Srcs, d \in Icmp6Dsts, h \in Icmp6Hops}

NoIcmp6Packet ==
    [frame |-> <<>>, dlen |-> 0, pshdr_sum |-> 0, src |-> Ip6Unspecified,
     dst |-> Ip6Unspecified, hop |-> 0]

\* no parser has been constructed
NoIcmp6Parser ==
    [result |-> "none", integrity_ok |-> FALSE, message |-> NoMessage,
     packet_rx |-> NoIcmp6Packet]

\* Icmp6Parser(packet_rx=p): the parser object is constructed
Icmp6ParserNew(p) ==
    /\ icmp6_parser.result = "none"
    /\ icmp6_parser' = Icmp6ParserInit(p)
    /\ UNCHANGED <<packet_stats_rx, ip6_host, ip4_mask>>
    /\ UNCHANGED tcpVars
    /\ UNCHANGED fragVars
    /\ UNCHANGED extVars

-----------------------------------------------------------------------------
(* Ip6Host: an IPv6 address with its network and an optional gateway *)

\* Python's None
None == <<>>

\* 2^k for k in 0..8
Pow2(k) == <<1, 2, 4, 8, 16, 32, 64, 128, 256>>[k + 1]

\* int(address) & int(mask) for a mask of n leading 1-bits
MaskAddress(a, n) ==
    [i \in 1..16 |->
        IF 8 * i <= n THEN a[i]
        ELSE IF 8 * (i - 1) >= n THEN 0
        ELSE a[i] - (a[i] % Pow2(8 * i - n))]

\* Ip6Network((address, mask)): the address with the host bits cleared, and
\* the mask (its length)
Ip6Network(a, n) == [address |-> MaskAddress(a, n), mask |-> n]

\* address in network
InNetwork(a, net) == MaskAddress(a, net.mask) = net.address

\* Ip6Address(text): the address the text stands for, None for a text that
\* is no address (Ip6AddressFormatError)
Ip6AddressFromStr(text) ==
    CASE text = "2001:db8::1" -> Ip6Doc1
      [] text = "fe80::1" -> Ip6LinkLocal1
      [] OTHER -> None

\* Ip6Mask("/" + text): the prefix length, -1 for a text that is no prefix
\* length of 0..128 (Ip6MaskFormatError)
Ip6MaskFromStr(text) ==
    CASE text = "64" -> 64
      [] text = "10" -> 10
      [] OTHER -> -1

\* _validate_gateway(address) raises Ip6HostGatewayError
GatewayRejected(address, host_address, host_network) ==
    /\ address # None
    /\ \/ ~InNetwork(address, Ip6Network(Ip6LinkLocal1, 10))
       \/ address = host_network.address
       \/ address = host_address

\* no Ip6Host object
NoHost ==
    [exists |-> FALSE, address |-> None, network |-> Ip6Network(Ip6Unspecified, 0),
     gateway |-> None, origin |-> "UNKNOWN", expiration_time |-> 0]

\* a constructed Ip6Host
Host(address, network, gateway, origin, expiration_time) ==
    [exists |-> TRUE, address |-> address, network |-> network,
     gateway |-> gateway, origin |-> origin,
     expiration_time |-> expiration_time]

\* how the construction ended: the exception raised ("none" if none) and the
\* object
Raised(exception) == [raised |-> exception, host |-> NoHost]
Constructed(host) == [raised |-> "none", host |-> host]

\* variant of Ip6HostFromNetwork: the address is not tested against the
\* network
Ip6HostFromNetwork_NoSanity(address, network, gateway, origin, exp) ==
    IF GatewayRejected(gateway, address, network)
    THEN Raised("Ip6HostGatewayError")
    ELSE Constructed(Host(address, network, gateway, origin, exp))

\* Ip6Host.__init__ for a tuple (Ip6Address, Ip6Network)
Ip6HostFromNetwork(address, network, gateway, origin, exp) ==
    IF ~InNetwork(address, network) THEN Raised("Ip6HostSanityError")
    ELSE IF GatewayRejected(gateway, address, network)
    THEN Raised("Ip6HostGatewayError")
    ELSE Constructed(Host(address, network, gateway, origin, exp))

\* Ip6Host.__init__ for a tuple (Ip6Address, Ip6Mask)
Ip6HostFromMask(address, mask, gateway, origin, exp) ==
    Constructed(Host(address, Ip6Network(address, mask), gateway, origin,
                     exp))

\* Ip6Host.__init__ for a string, given as its pieces between "/": anything
\* but two pieces makes the unpacking of host.split("/") raise ValueError
Ip6HostFromStr(parts, gateway, origin, exp) ==
    IF Len(parts) # 2 THEN Raised("Ip6HostFormatError")
    ELSE IF Ip6AddressFromStr(parts[1]) = None
    THEN Raised("Ip6HostFormatError")
    ELSE IF Ip6MaskFromStr(parts[2]) = -1 THEN Raised("Ip6HostFormatError")
    ELSE Constructed(Host(Ip6AddressFromStr(parts[1]),
                          Ip6Network(Ip6AddressFromStr(parts[1]),
                                     Ip6MaskFromStr(parts[2])),
                          gateway, origin, exp))

\* Ip6Host.__init__ for an Ip6Host
Ip6HostFromHost(host, gateway, origin, expiration_time) ==
    IF gateway # None \/ origin # "None" \/ expiration_time # -1
    THEN Raised("AssertionError")
    ELSE Constructed(Host(host.address, host.network, host.gateway,
                          host.origin, host.expiration_time))

\* Ip6Host(host, gateway=, origin=, expiration_time=) at time t.  An origin
\* of "None" and an expiration time of -1 stand for arguments not given.
Ip6HostInit(arg, gateway, origin, expiration_time, t) ==
    LET origin1 == IF origin = "None" THEN "UNKNOWN" ELSE origin
        exp1 == IF expiration_time = -1 THEN 0 ELSE expiration_time
    IN IF ~(IF origin1 \in {"ND", "DHCP"} THEN exp1 >= t ELSE exp1 = 0)
       THEN Raised("AssertionError")
       ELSE CASE arg.type = "network" ->
                    Ip6HostFromNetwork(arg.address, arg.network, gateway,
                                       origin1, exp1)
              [] arg.type = "mask" ->
                    Ip6HostFromMask(arg.address, arg.mask, gateway, origin1,
                                    exp1)
              [] arg.type = "str" ->
                    Ip6HostFromStr(arg.parts, gateway, origin1, exp1)
              [] arg.type = "host" ->
                    Ip6HostFromHost(arg.host, gateway, origin, expiration_time)
              [] OTHER -> Raised("Ip6HostFormatError")

\* arguments of the constructor and of the gateway setter
HostAddresses == {Ip6Doc1, Ip6LinkLocal1}
HostNetworks == {Ip6Network(Ip6Doc1, 64), Ip6Network(Ip6LinkLocal1, 64)}
HostMasks == {64, 10}
HostStrings ==
    {<<"2001:db8::1", "64">>, <<"fe80::1", "10">>, <<"2001:db8::1">>,
     <<"2001:db8::1", "64", "64">>, <<"2001:db8::zz", "64">>,
     <<"2001:db8::1", "129">>}
HostArgs ==
    [type : {"network"}, address : HostAddresses, network : HostNetworks]
    \cup [type : {"mask"}, address : HostAddresses, mask : HostMasks]
    \cup [type : {"str"}, parts : HostStrings]
    \cup {[type |-> "int"]}
Gateways ==
    {None, Ip6LinkLocal1, MaskAddress(Ip6LinkLocal1, 64),
     <<254, 128, 0, 0, 0, 0, 0, 0, 0, 0, 0, 0, 0, 0, 0, 2>>, Ip6Doc2}
\* <<origin, expiration_time>>
HostOrigins == {<<"None", -1>>, <<"ND", 1>>, <<"STATIC", 1>>}

\* no call has been made
NoHostCall ==
    [host |-> NoHost, call |-> "none", arg |-> [type |-> "none"],
     gateway |-> None, raised |-> "none"]

\* host = Ip6Host(arg, gateway=gw, origin=o[1], expiration_time=o[2])
Ip6HostNew(arg, gw, o) ==
    /\ ip6_host.call = "none"
    /\ LET r == Ip6HostInit(arg, gw, o[1], o[2], now)
       IN ip6_host' = [host |-> r.host, call |-> "init", arg |-> arg,
                       gateway |-> gw, raised |-> r.raised]
    /\ UNCHANGED <<packet_stats_rx, icmp6_parser, ip4_mask>>
    /\ UNCHANGED tcpVars
    /\ UNCHANGED fragVars
    /\ UNCHANGED extVars

\* host = Ip6Host(host, gateway=gw, ...): the host is replaced by its copy;
\* it stays as it is if the constructor raises
Ip6HostCopy(gw, o) ==
    /\ ip6_host.host.exists
    /\ LET r == Ip6HostInit([type |-> "host", host |-> ip6_host.host], gw,
                            o[1], o[2], now)
       IN ip6_host' = [host |-> IF r.raised = "none" THEN r.host
                                ELSE ip6_host.host,
                       call |-> "copy", arg |-> [type |-> "host"],
                       gateway |-> gw, raised |-> r.raised]
    /\ UNCHANGED <<packet_stats_rx, icmp6_parser, ip4_mask>>
    /\ UNCHANGED tcpVars
    /\ UNCHANGED fragVars
    /\ UNCHANGED extVars

\* host.gateway = address  (IpHost.gateway setter)
Ip6HostSetGateway(address) ==
    /\ ip6_host.host.exists
    /\ IF GatewayRejected(address, ip6_host.host.address,
                          ip6_host.host.network)
       THEN ip6_host' = [ip6_host EXCEPT !.call = "gateway",
                                         !.arg = [type |-> "none"],
                                         !.gateway = address,
                                         !.raised = "Ip6HostGatewayError"]
       ELSE ip6_host' = [ip6_host EXCEPT !.host.gateway = address,
                                         !.call = "gateway",
                                         !.arg = [type |-> "none"],
                                         !.gateway = address,
                                         !.raised = "none"]
    /\ UNCHANGED <<packet_stats_rx, icmp6_parser, ip4_mask>>
    /\ UNCHANGED tcpVars
    /\ UNCHANGED fragVars
    /\ UNCHANGED extVars

-----------------------------------------------------------------------------
(* Ip4Mask.  The 32-bit value _mask is kept as <<hi, lo>> like the TCP       *)
(* numbers.                                                                  *)

IP4__ADDRESS_LEN == 4

\* the n-bit binary form of x, most significant bit first
Bits(x, n) == [i \in 1..n |-> (x \div 2^(n - i)) % 2]

\* f"{self._mask:032b}"
MaskBits(v) == Bits(v[1], 16) \o Bits(v[2], 16)

\* int(bits, 2) for 32 bits or fewer (a shorter or empty string included)
RECURSIVE BitsValue(_)
BitsValue(b) ==
    IF b = <<>> THEN 0 ELSE 2 * BitsValue(SubSeq(b, 1, Len(b) - 1)) + b[Len(b)]

BitsToInt(b) ==
    IF Len(b) <= 16 THEN <<0, BitsValue(b)>>
    ELSE <<BitsValue(SubSeq(b, 1, Len(b) - 16)),
           BitsValue(SubSeq(b, Len(b) - 15, Len(b)))>>

\* IpMask._validate_bits(bit_count): no 1-bit follows a 0-bit
ValidateBits(v, bit_count) ==
    LET b == MaskBits(v)
    IN ~ \E i, j \in 1..bit_count : i < j /\ b[i] = 0 /\ b[j] = 1

\* int.from_bytes(mask) for four bytes
IntFromBytes(b) == <<b[1] * 256 + b[2], b[3] * 256 + b[4]>>

\* int(text) for a text of decimal digits
RECURSIVE DigitsValue(_)
DigitsValue(d) ==
    IF d = <<>> THEN 0
    ELSE 10 * DigitsValue(SubSeq(d, 1, Len(d) - 1)) + d[Len(d)]

\* how the construction ended: the exception raised ("none" if none) and
\* _mask
MaskRaised == [raised |-> "Ip4MaskFormatError", mask |-> <<0, 0>>]
MaskSet(v) == [raised |-> "none", mask |-> v]

\* variant of Ip4MaskFromInt: the bits of the value are not validated
Ip4MaskFromInt_NoValidate(arg) ==
    IF ~arg.negative /\ arg.value[1] <= 65535
    THEN MaskSet(arg.value)
    ELSE MaskRaised

\* Ip4Mask.__init__ for an int: "mask & 0xFF_FF_FF_FF == mask" holds for
\* 0 <= mask < 2^32
Ip4MaskFromInt(arg) ==
    IF ~arg.negative /\ arg.value[1] <= 65535
          /\ ValidateBits(arg.value, IP4__ADDRESS_LEN * 8)
    THEN MaskSet(arg.value)
    ELSE MaskRaised

\* Ip4Mask.__init__ for bytes, bytearray or memoryview
Ip4MaskFromBytes(arg) ==
    IF Len(arg.bytes) = 4
          /\ ValidateBits(IntFromBytes(arg.bytes), IP4__ADDRESS_LEN * 8)
    THEN MaskSet(IntFromBytes(arg.bytes))
    ELSE MaskRaised

\* Ip4Mask.__init__ for a string "/" + digits: the regular expression lets
\* one or two digits through
Ip4MaskFromSlash(arg) ==
    IF Len(arg.digits) \in {1, 2} /\ DigitsValue(arg.digits) \in 0..32
    THEN MaskSet(BitsToInt([i \in 1..32 |->
                    IF i <= DigitsValue(arg.digits) THEN 1 ELSE 0]))
    ELSE MaskRaised

\* Ip4Mask.__init__ for a dotted string, given by its numbers: IP4__REGEX
\* and inet_aton let four numbers of 0..255 through
Ip4MaskFromDotted(arg) ==
    IF Len(arg.octets) = 4
          /\ (\A i \in 1..Len(arg.octets) : arg.octets[i] \in 0..255)
          /\ ValidateBits(IntFromBytes(arg.octets), IP4__ADDRESS_LEN * 8)
    THEN MaskSet(IntFromBytes(arg.octets))
    ELSE MaskRaised

\* Ip4Mask(mask)
Ip4MaskInit(arg) ==
    CASE arg.type = "None" -> MaskSet(<<0, 0>>)
      [] arg.type = "int" -> Ip4MaskFromInt(arg)
      [] arg.type = "bytes" -> Ip4MaskFromBytes(arg)
      [] arg.type = "slash" -> Ip4MaskFromSlash(arg)
      [] arg.type = "dotted" -> Ip4MaskFromDotted(arg)
      [] arg.type = "Ip4Mask" -> MaskSet(arg.mask)
      [] OTHER -> MaskRaised

\* arguments of the constructor
MaskHalves == {0, 8, 240, 65280, 65281, 65534, 65535}
MaskInts ==
    [type : {"int"}, negative : BOOLEAN,
     value : (MaskHalves \cup {65536}) \X MaskHalves]
MaskByteValues == {0, 128, 255}
MaskBytes ==
    [type : {"bytes"},
     bytes : UNION {[1..n -> MaskByteValues] : n \in 3..5}]
MaskSlashes ==
    [type : {"slash"},
     digits : UNION {[1..n -> {0, 1, 2, 3, 9}] : n \in 1..3}]
MaskDotted ==
    [type : {"dotted"},
     octets : [1..4 -> {0, 1, 255, 300}] \cup {<<255, 255, 255>>}]
MaskArgs ==
    MaskInts \cup MaskBytes \cup MaskSlashes \cup MaskDotted
    \cup {[type |-> "None"], [type |-> "float"]}

\* no Ip4Mask has been constructed
NoMaskCall ==
    [call |-> "none", arg |-> [type |-> "none"], raised |-> "none",
     mask |-> <<0, 0>>]

\* mask = Ip4Mask(arg)
Ip4MaskNew(arg) ==
    /\ ip4_mask.call = "none"
    /\ LET r == Ip4MaskInit(arg)
       IN ip4_mask' = [call |-> "init", arg |-> arg, raised |-> r.raised,
                       mask |-> r.mask]
    /\ UNCHANGED <<packet_stats_rx, icmp6_parser, ip6_host>>
    /\ UNCHANGED tcpVars
    /\ UNCHANGED fragVars
    /\ UNCHANGED extVars

\* mask = Ip4Mask(mask): a constructed mask is copied
Ip4MaskCopy ==
    /\ ip4_mask.call = "init"
    /\ ip4_mask.raised = "none"
    /\ LET arg == [type |-> "Ip4Mask", mask |-> ip4_mask.mask]
           r == Ip4MaskInit(arg)
       IN ip4_mask' = [call |-> "copy", arg |-> arg, raised |-> r.raised,
                       mask |-> r.mask]
    /\ UNCHANGED <<packet_stats_rx, icmp6_parser, ip6_host>>
    /\ UNCHANGED tcpVars
    /\ UNCHANGED fragVars
    /\ UNCHANGED extVars

-----------------------------------------------------------------------------
(* Source-address selection (pick_local_ip_address).  An IPv4 address is a  *)
(* tuple of 4 bytes, an IPv6 address one of 16.                             *)

\* number of hosts in one host list
MaxHosts == 2

Ip4Unspecified == <<0, 0, 0, 0>>

\* Ip4Network((address, mask)) for a mask of n leading 1-bits
Ip4Network(a, n) ==
    [address |-> [i \in 1..4 |->
                    IF 8 * i <= n THEN a[i]
                    ELSE IF 8 * (i - 1) >= n THEN 0
                    ELSE a[i] - (a[i] % Pow2(8 * i - n))],
     mask |-> n]

\* network of address a with the mask of network net, whatever the family
NetworkOf(a, net) ==
    IF Len(a) = 4 THEN Ip4Network(a, net.mask) ELSE Ip6Network(a, net.mask)

\* remote_ip_address in host.network
Contains(net, a) == NetworkOf(a, net) = net

\* indices of the hosts the first loop stops at, and of those the second
\* loop stops at
LocalHits(hosts, remote) ==
    {i \in 1..Len(hosts) : Contains(hosts[i].network, remote)}
GatewayHits(hosts) == {i \in 1..Len(hosts) : hosts[i].gateway # None}

First(S) == CHOOSE i \in S : \A j \in S : i <= j

\* variant of PickLocal: the hosts that have a gateway are looked at first
PickLocal_GatewayFirst(hosts, remote, unspecified) ==
    IF GatewayHits(hosts) # {} THEN hosts[First(GatewayHits(hosts))].address
    ELSE IF LocalHits(hosts, remote) # {}
    THEN hosts[First(LocalHits(hosts, remote))].address
    ELSE unspecified

\* pick_local_ip6_address / pick_local_ip4_address over their host list
PickLocal(hosts, remote, unspecified) ==
    IF LocalHits(hosts, remote) # {}
    THEN hosts[First(LocalHits(hosts, remote))].address
    ELSE IF GatewayHits(hosts) # {} THEN hosts[First(GatewayHits(hosts))].address
    ELSE unspecified

\* pick_local_ip_address(remote): the family of the remote address selects
\* the function and with it the host list
pick_local_ip_address(remote, handler) ==
    IF Len(remote) = 16
    THEN PickLocal(handler.ip6_host, remote, Ip6Unspecified)
    ELSE PickLocal(handler.ip4_host, remote, Ip4Unspecified)

\* the hosts a stack may be configured with
Ip4Local == <<10, 0, 0, 7>>
Ip4Other == <<192, 168, 9, 7>>
Ip4Gateway == <<10, 0, 0, 1>>
Ip6Gateway == <<254, 128, 0, 0, 0, 0, 0, 0, 0, 0, 0, 0, 0, 0, 0, 2>>
Ip6Hosts ==
    {Ip6HostFromMask(a, 64, gw, "STATIC", 0).host :
        a \in {Ip6Doc1, Ip6LinkLocal1}, gw \in {None, Ip6Gateway}}
Ip4Hosts ==
    {Host(a, Ip4Network(a, 24), gw, "STATIC", 0) :
        a \in {Ip4Local, Ip4Other}, gw \in {None, Ip4Gateway}}

\* remote addresses: inside a configured network, and outside all of them
RemoteAddresses ==
    {Ip6Doc2, Ip6Gateway, Ip6SixToFour,
     <<10, 0, 0, 1>>, <<192, 168, 9, 1>>, <<8, 8, 8, 8>>}

NoHosts == [ip6_host |-> <<>>, ip4_host |-> <<>>]
NoPick == [call |-> "none", remote |-> None, hosts |-> <<>>, address |-> None]

\* a host is appended to stack.packet_handler.ip6_host
Ip6HostAssign(h) ==
    /\ Len(ip_hosts.ip6_host) < MaxHosts
    /\ ip_hosts' = [ip_hosts EXCEPT !.ip6_host = Append(@, h)]
    /\ UNCHANGED <<packet_stats_rx, local_ip, icmp_msg, sock_name,
                   ip4_header>>
    /\ UNCHANGED tcpVars
    /\ UNCHANGED fragVars
    /\ UNCHANGED libVars

\* a host is appended to stack.packet_handler.ip4_host
Ip4HostAssign(h) ==
    /\ Len(ip_hosts.ip4_host) < MaxHosts
    /\ ip_hosts' = [ip_hosts EXCEPT !.ip4_host = Append(@, h)]
    /\ UNCHANGED <<packet_stats_rx, local_ip, icmp_msg, sock_name,
                   ip4_header>>
    /\ UNCHANGED tcpVars
    /\ UNCHANGED fragVars
    /\ UNCHANGED libVars

\* local_ip_address = pick_local_ip_address(remote)
PickLocalIpAddress(remote) ==
    /\ local_ip' = [call |-> "pick", remote |-> remote,
                    hosts |-> IF Len(remote) = 16 THEN ip_hosts.ip6_host
                              ELSE ip_hosts.ip4_host,
                    address |-> pick_local_ip_address(remote, ip_hosts)]
    /\ UNCHANGED <<packet_stats_rx, ip_hosts, icmp_msg, sock_name,
                   ip4_header>>
    /\ UNCHANGED tcpVars
    /\ UNCHANGED fragVars
    /\ UNCHANGED libVars

-----------------------------------------------------------------------------
(* ICMP message objects: construction, __len__, __bytes__ and from_bytes.   *)
(* A message is a record of its class name and its fields; a field the      *)
(* class does not have keeps the value it has in NoMsg (mtu -1 is None).    *)

IP4__HEADER__LEN == 20
IP4__MIN_MTU == 576
ICMP4__HEADER__LEN == 4
ICMP4__ECHO_REQUEST__LEN == 8
ICMP4__DESTINATION_UNREACHABLE__LEN == 8

Icmp4Type == [ECHO_REPLY |-> 0, DESTINATION_UNREACHABLE |-> 3,
              ECHO_REQUEST |-> 8]
FRAGMENTATION_NEEDED == 4

\* struct "H": a 16-bit value as two bytes, and the value at offset i of b
PackH(v) == <<v \div 256, v % 256>>
UnpackH(b, i) == b[i + 1] * 256 + b[i + 2]

NoMsg ==
    [class |-> "none", type |-> 0, code |-> 0, cksum |-> 0, id |-> 0,
     seq |-> 0, mtu |-> -1, data |-> <<>>, options |-> <<>>]

Icmp4EchoRequestMessage(cksum, id, seq, data) ==
    [NoMsg EXCEPT !.class = "Icmp4EchoRequestMessage",
                  !.type = Icmp4Type.ECHO_REQUEST, !.code = 0,
                  !.cksum = cksum, !.id = id, !.seq = seq, !.data = data]

\* __post_init__ cuts the data down to what fits the minimum MTU
Icmp4DestinationUnreachableMessage(code, cksum, mtu, data) ==
    [NoMsg EXCEPT !.class = "Icmp4DestinationUnreachableMessage",
                  !.type = Icmp4Type.DESTINATION_UNREACHABLE, !.code = code,
                  !.cksum = cksum, !.mtu = mtu,
                  !.data = Slice(data, 0,
                                 IP4__MIN_MTU - IP4__HEADER__LEN
                                 - ICMP4__DESTINATION_UNREACHABLE__LEN)]

Icmp6NdRouterSolicitationMessage(cksum, options) ==
    [NoMsg EXCEPT !.class = "Icmp6NdRouterSolicitationMessage",
                  !.type = Icmp6Type.ND__ROUTER_SOLICITATION, !.code = 0,
                  !.cksum = cksum, !.options = options]

Icmp4UnknownMessage(type, code, cksum) ==
    [NoMsg EXCEPT !.class = "Icmp4UnknownMessage", !.type = type,
                  !.code = code, !.cksum = cksum]

Icmp6UnknownMessage(type, code, cksum) ==
    [NoMsg EXCEPT !.class = "Icmp6UnknownMessage", !.type = type,
                  !.code = code, !.cksum = cksum]

\* bytes(options): each option as type, length in units of 8 bytes, data
RECURSIVE NdOptionsBytes(_)
NdOptionsBytes(opts) ==
    IF opts = <<>> THEN <<>>
    ELSE <<opts[1].type, (Len(opts[1].data) + 2) \div 8>> \o opts[1].data
         \o NdOptionsBytes(Tail(opts))

\* len(message): the value, or the exception raised
MessageLen(m) ==
    CASE m.class = "Icmp4EchoRequestMessage" ->
            [raised |-> "none",
             len |-> ICMP4__ECHO_REQUEST__LEN + Len(m.data)]
      [] m.class = "Icmp4DestinationUnreachableMessage" ->
            [raised |-> "none",
             len |-> ICMP4__DESTINATION_UNREACHABLE__LEN + Len(m.data)]
      [] m.class = "Icmp6NdRouterSolicitationMessage" ->
            [raised |-> "none",
             len |-> ICMP6__ND__ROUTER_SOLICITATION__LEN
                     + Len(NdOptionsBytes(m.options))]
      [] OTHER -> [raised |-> "NotImplementedError", len |-> 0]

\* bytes(message): the bytes, checksum field zero, or the exception raised
MessageBytes(m) ==
    CASE m.class = "Icmp4EchoRequestMessage" ->
            [raised |-> "none",
             bytes |-> <<m.type, m.code, 0, 0>> \o PackH(m.id) \o PackH(m.seq)
                       \o m.data]
      [] m.class = "Icmp4DestinationUnreachableMessage" ->
            [raised |-> "none",
             bytes |-> IF m.code = FRAGMENTATION_NEEDED
                       THEN <<m.type, m.code, 0, 0, 0, 0>> \o PackH(m.mtu)
                            \o m.data
                       ELSE <<m.type, m.code, 0, 0, 0, 0, 0, 0>> \o m.data]
      [] m.class = "Icmp6NdRouterSolicitationMessage" ->
            [raised |-> "none",
             bytes |-> <<m.type, m.code, 0, 0, 0, 0, 0, 0>>
                       \o NdOptionsBytes(m.options)]
      [] OTHER -> [raised |-> "NotImplementedError", bytes |-> <<>>]

Icmp4EchoRequestFromBytes(b) ==
    Icmp4EchoRequestMessage(UnpackH(b, 2), UnpackH(b, 4), UnpackH(b, 6),
                            SliceFrom(b, ICMP4__ECHO_REQUEST__LEN))

Icmp4DestinationUnreachableFromBytes(b) ==
    Icmp4DestinationUnreachableMessage(
        b[2], UnpackH(b, 2),
        IF b[2] = FRAGMENTATION_NEEDED THEN UnpackH(b, 6) ELSE -1,
        SliceFrom(b, ICMP4__DESTINATION_UNREACHABLE__LEN))

\* only the options are passed to the constructor: cksum keeps its default
Icmp6NdRouterSolicitationFromBytes(b) ==
    Icmp6NdRouterSolicitationMessage(
        0,
        NdOptionsFromBytes(SliceFrom(b, ICMP6__ND__ROUTER_SOLICITATION__LEN)))

Icmp4UnknownFromBytes(b) == Icmp4UnknownMessage(b[1], b[2], UnpackH(b, 2))
Icmp6UnknownFromBytes(b) == Icmp6UnknownMessage(b[1], b[2], UnpackH(b, 2))

\* the message class the type byte selects, and its from_bytes
MessageFromBytes(version, b) ==
    IF version = 4
    THEN CASE b[1] = Icmp4Type.ECHO_REQUEST -> Icmp4EchoRequestFromBytes(b)
           [] b[1] = Icmp4Type.DESTINATION_UNREACHABLE ->
                 Icmp4DestinationUnreachableFromBytes(b)
           [] OTHER -> Icmp4UnknownFromBytes(b)
    ELSE CASE b[1] = Icmp6Type.ND__ROUTER_SOLICITATION ->
                 Icmp6NdRouterSolicitationFromBytes(b)
           [] OTHER -> Icmp6UnknownFromBytes(b)

\* field values and messages to construct (all within the field limits)
U16Values == {0, 1, 255, 256, 65535}
DataValues == {<<>>, <<1, 2, 3>>, Fill(550, 7)}
OptionValues ==
    {<<>>, <<[type |-> 1, data |-> <<0, 17, 34, 51, 68, 85>>]>>,
     <<[type |-> 1, data |-> <<0, 17, 34, 51, 68, 85>>],
       [type |-> 5, data |-> <<0, 0, 0, 0, 5, 220>>]>>}
Messages ==
    {Icmp4EchoRequestMessage(0, id, seq, d) :
        id \in U16Values, seq \in {0, 258}, d \in DataValues}
    \cup {Icmp4DestinationUnreachableMessage(c, 0, -1, d) :
            c \in {0, 3, 15}, d \in DataValues}
    \cup {Icmp4DestinationUnreachableMessage(FRAGMENTATION_NEEDED, 0, mtu, d) :
            mtu \in {0, 1500, 65535}, d \in DataValues}
    \cup {Icmp6NdRouterSolicitationMessage(0, o) : o \in OptionValues}

\* received frames of a type no message class stands for
UnknownFrames ==
    {[version |-> v, frame |-> WithCksum(<<t, c>> \o <<0, 0>> \o body,
                                         4 + Len(body), 0)] :
        v \in {4, 6}, t \in {200, 255}, c \in {0, 7},
        body \in {<<>>, <<1, 2, 3, 4>>, <<9, 9, 9, 9, 9>>}}

NoFrame == <<>>
NoResult == [raised |-> "none", len |-> -1, bytes |-> <<>>, done |-> FALSE]
NoIcmpMsg ==
    [version |-> 0, sent |-> NoMsg, frame |-> NoFrame, parsed |-> NoMsg,
     out |-> NoResult]

\* message = Icmp...Message(...)
MessageNew(m) ==
    /\ icmp_msg = NoIcmpMsg
    /\ icmp_msg' = [icmp_msg EXCEPT
                        !.version = IF m.type = Icmp6Type.ND__ROUTER_SOLICITATION
                                    THEN 6 ELSE 4,
                        !.sent = m]
    /\ UNCHANGED <<packet_stats_rx, ip_hosts, local_ip, sock_name,
                   ip4_header>>
    /\ UNCHANGED tcpVars
    /\ UNCHANGED fragVars
    /\ UNCHANGED libVars

\* the message is assembled: its bytes with the checksum field set to the
\* computed checksum; the message sent is the one with that checksum
MessageAssemble ==
    /\ icmp_msg.sent # NoMsg
    /\ icmp_msg.frame = NoFrame
    /\ LET b == MessageBytes(icmp_msg.sent).bytes
           f == WithCksum(b, Len(b), 0)
       IN icmp_msg' = [icmp_msg EXCEPT !.frame = f,
                                       !.sent.cksum = UnpackH(f, 2)]
    /\ UNCHANGED <<packet_stats_rx, ip_hosts, local_ip, sock_name,
                   ip4_header>>
    /\ UNCHANGED tcpVars
    /\ UNCHANGED fragVars
    /\ UNCHANGED libVars

\* a frame of an unknown type is received
FrameReceive(f) ==
    /\ icmp_msg = NoIcmpMsg
    /\ icmp_msg' = [icmp_msg EXCEPT !.version = f.version, !.frame = f.frame]
    /\ UNCHANGED <<packet_stats_rx, ip_hosts, local_ip, sock_name,
                   ip4_header>>
    /\ UNCHANGED tcpVars
    /\ UNCHANGED fragVars
    /\ UNCHANGED libVars

\* message = <class>.from_bytes(frame)
MessageParse ==
    /\ icmp_msg.frame # NoFrame
    /\ icmp_msg.parsed = NoMsg
    /\ icmp_msg' = [icmp_msg EXCEPT
                        !.parsed = MessageFromBytes(icmp_msg.version,
                                                    icmp_msg.frame)]
    /\ UNCHANGED <<packet_stats_rx, ip_hosts, local_ip, sock_name,
                   ip4_header>>
    /\ UNCHANGED tcpVars
    /\ UNCHANGED fragVars
    /\ UNCHANGED libVars

\* len(message) and bytes(message) of the parsed message
MessageReassemble ==
    /\ icmp_msg.parsed # NoMsg
    /\ ~icmp_msg.out.done
    /\ LET l == MessageLen(icmp_msg.parsed)
           b == MessageBytes(icmp_msg.parsed)
       IN icmp_msg' = [icmp_msg EXCEPT
                          !.out = [raised |-> IF l.raised # "none"
                                              THEN l.raised ELSE b.raised,
                                   len |-> l.len, bytes |-> b.bytes,
                                   done |-> TRUE]]
    /\ UNCHANGED <<packet_stats_rx, ip_hosts, local_ip, sock_name,
                   ip4_header>>
    /\ UNCHANGED tcpVars
    /\ UNCHANGED fragVars
    /\ UNCHANGED libVars

-----------------------------------------------------------------------------
(* Socket.getsockname / Socket.getpeername.  A socket is its key            *)
(* <<local address, local port, remote address, remote port>>; an address   *)
(* is kept as its string form.                                              *)

\* sockets that are asked for their names
NamedSocketKeys ==
    SocketKeys \cup {<<LocalIp, 80, RemoteIp, 80>>,
                     <<LocalIp, 5000, RemoteIp, 80>>}

NoName == [call |-> "none", socket |-> <<>>, result |-> <<>>]

\* socket.getsockname()
GetSockName(k) ==
    /\ k \in sockets
    /\ sock_name' = [call |-> "getsockname", socket |-> k,
                     result |-> <<k[1], k[2]>>]
    /\ UNCHANGED <<packet_stats_rx, ip_hosts, local_ip, icmp_msg,
                   ip4_header>>
    /\ UNCHANGED tcpVars
    /\ UNCHANGED fragVars
    /\ UNCHANGED libVars

\* socket.getpeername(): the remote address with the local port
GetPeerName(k) ==
    /\ k \in sockets
    /\ sock_name' = [call |-> "getpeername", socket |-> k,
                     result |-> <<k[3], k[2]>>]
    /\ UNCHANGED <<packet_stats_rx, ip_hosts, local_ip, icmp_msg,
                   ip4_header>>
    /\ UNCHANGED tcpVars
    /\ UNCHANGED fragVars
    /\ UNCHANGED libVars

-----------------------------------------------------------------------------
(* Ip4Header: from_bytes, the field checks of __post_init__, __bytes__ *)

is_uint2(x) == x \in 0..3
is_uint6(x) == x \in 0..63
is_uint8(x) == x \in 0..255
is_uint13(x) == x \in 0..8191
is_uint16(x) == x \in 0..65535
is_8_byte_alligned(x) == x % 8 = 0

\* __post_init__: the first assertion that fails
Ip4HeaderPostInit(h) ==
    IF /\ h.ver = 4
       /\ is_uint6(h.hlen) /\ h.hlen >= IP4__HEADER__LEN
       /\ is_uint6(h.dscp)
       /\ is_uint2(h.ecn)
       /\ is_uint16(h.plen) /\ h.plen >= IP4__HEADER__LEN
       /\ is_uint16(h.id)
       /\ is_uint13(h.offset)
       /\ is_8_byte_alligned(h.offset)
       /\ is_uint8(h.ttl)
       /\ is_uint16(h.cksum)
    THEN "none" ELSE "AssertionError"

\* Ip4Header.from_bytes(_bytes): the fields unpacked from the first 20 bytes
Ip4HeaderFields(b) ==
    [ver |-> b[1] \div 16,
     hlen |-> (b[1] % 16) * 4,
     dscp |-> b[2] \div 4,
     ecn |-> b[2] % 4,
     plen |-> UnpackH(b, 2),
     id |-> UnpackH(b, 4),
     flag_df |-> (UnpackH(b, 6) \div 16384) % 2 = 1,
     flag_mf |-> (UnpackH(b, 6) \div 8192) % 2 = 1,
     offset |-> (UnpackH(b, 6) % 8192) * 8,
     ttl |-> b[9],
     proto |-> b[10],
     cksum |-> UnpackH(b, 10),
     src |-> Slice(b, 12, 16),
     dst |-> Slice(b, 16, 20)]

\* bytes(header): the checksum field is written as 0
Ip4HeaderBytes(h) ==
    <<h.ver * 16 + (h.hlen \div 4), h.dscp * 4 + h.ecn>> \o PackH(h.plen)
    \o PackH(h.id)
    \o PackH(BoolInt(h.flag_df) * 16384 + BoolInt(h.flag_mf) * 8192
             + (h.offset \div 8))
    \o <<h.ttl, h.proto, 0, 0>> \o h.src \o h.dst

\* 20-byte headers: version and header length, total length, flags and
\* fragment-offset field (in units of 8 bytes) vary
OffsetFields == {0, 1, 1023, 1024, 8191}
Ip4HeaderFrames ==
    {<<vh, 0>> \o PackH(plen) \o <<0, 1>>
     \o PackH(BoolInt(df) * 16384 + BoolInt(mf) * 8192 + off)
     \o <<64, 6, 0, 0>> \o Ip4Gateway \o Ip4Local :
        vh \in {69, 70, 79, 101}, plen \in {20, 1500},
        df \in BOOLEAN, mf \in BOOLEAN, off \in OffsetFields}

NoIp4Header ==
    [call |-> "none", frame |-> <<>>, raised |-> "none", header |-> <<>>,
     bytes |-> <<>>]

\* header = Ip4Header.from_bytes(b)
Ip4HeaderParse(b) ==
    /\ ip4_header.call = "none"
    /\ LET h == Ip4HeaderFields(b)
           r == Ip4HeaderPostInit(h)
       IN ip4_header' = [call |-> "from_bytes", frame |-> b, raised |-> r,
                         header |-> IF r = "none" THEN h ELSE <<>>,
                         bytes |-> <<>>]
    /\ UNCHANGED <<packet_stats_rx, ip_hosts, local_ip, icmp_msg, sock_name>>
    /\ UNCHANGED tcpVars
    /\ UNCHANGED fragVars
    /\ UNCHANGED libVars

\* bytes(header) of the header parsed
Ip4HeaderAssemble ==
    /\ ip4_header.call = "from_bytes"
    /\ ip4_header.raised = "none"
    /\ ip4_header' = [ip4_header EXCEPT
                         !.call = "bytes",
                         !.bytes = Ip4HeaderBytes(ip4_header.header)]
    /\ UNCHANGED <<packet_stats_rx, ip_hosts, local_ip, icmp_msg, sock_name>>
    /\ UNCHANGED tcpVars
    /\ UNCHANGED fragVars
    /\ UNCHANGED libVars

-----------------------------------------------------------------------------
(* Specifications *)

Init ==
    /\ sockets = {}
    /\ packet_stats_rx = ZeroStats
    /\ packet_rx = NoSegment
    /\ tcp_fwd = {}
    /\ tcp_tx = <<>>
    /\ ip6_frag_flows = <<>>
    /\ now = 0
    /\ frag_out = NoOutcome
    /\ frag_seen = <<>>
    /\ frag_done = {}
    /\ icmp6_parser = NoIcmp6Parser
    /\ ip6_host = NoHostCall
    /\ ip4_mask = NoMaskCall
    /\ ip_hosts = NoHosts
    /\ local_ip = NoPick
    /\ icmp_msg = NoIcmpMsg
    /\ sock_name = NoName
    /\ ip4_header = NoIp4Header

NextTcp ==
    \/ \E p \in TcpSegments \cup {BadSegment} : PhrxTcp(p)
    \/ \E k \in SocketKeys : SocketOpen(k)
    \/ \E k \in SocketKeys : SocketClose(k)

NextFrag ==
    \/ \E fr \in Fragments : PhrxIp6ExtFrag(fr)
    \/ Tick

NextFlows ==
    \/ \E fr \in FlowFragments : PhrxIp6ExtFrag(fr)
    \/ Tick

NextIcmp6 == \E p \in Icmp6Packets : Icmp6ParserNew(p)

NextHost ==
    \/ \E arg \in HostArgs, gw \in Gateways, o \in HostOrigins :
          Ip6HostNew(arg, gw, o)
    \/ \E gw \in {None, Ip6Doc2}, o \in HostOrigins : Ip6HostCopy(gw, o)
    \/ \E a \in Gateways : Ip6HostSetGateway(a)

NextMask ==
    \/ \E arg \in MaskArgs : Ip4MaskNew(arg)
    \/ Ip4MaskCopy

NextPick ==
    \/ \E h \in Ip6Hosts : Ip6HostAssign(h)
    \/ \E h \in Ip4Hosts : Ip4HostAssign(h)
    \/ \E r \in RemoteAddresses : PickLocalIpAddress(r)

NextMsg ==
    \/ \E m \in Messages : MessageNew(m)
    \/ MessageAssemble
    \/ \E f \in UnknownFrames : FrameReceive(f)
    \/ MessageParse
    \/ MessageReassemble

NextSock ==
    \/ \E k \in NamedSocketKeys : SocketOpen(k)
    \/ \E k \in NamedSocketKeys : SocketClose(k)
    \/ \E k \in NamedSocketKeys : GetSockName(k)
    \/ \E k \in NamedSocketKeys : GetPeerName(k)

NextHeader ==
    \/ \E b \in Ip4HeaderFrames : Ip4HeaderParse(b)
    \/ Ip4HeaderAssemble

Next ==
    \/ NextTcp \/ NextFrag \/ NextIcmp6 \/ NextHost \/ NextMask \/ NextPick
    \/ NextMsg \/ NextSock \/ NextFlows \/ NextHeader

\* the whole model
Spec == Init /\ [][Next]_vars

\* inbound TCP dispatch alone
SpecTcp == Init /\ [][NextTcp]_vars

\* IPv6 fragment reassembly alone
SpecFrag == Init /\ [][NextFrag]_vars

\* IPv6 fragment reassembly with fragments of several flows
SpecFlows == Init /\ [][NextFlows]_vars

\* the ICMPv6 parser alone
SpecIcmp6 == Init /\ [][NextIcmp6]_vars

\* Ip6Host alone
SpecHost == Init /\ [][NextHost]_vars

\* Ip4Mask alone
SpecMask == Init /\ [][NextMask]_vars

\* source-address selection alone
SpecPick == Init /\ [][NextPick]_vars

\* ICMP message objects alone
SpecMsg == Init /\ [][NextMsg]_vars

\* the socket table with the name queries alone
SpecSock == Init /\ [][NextSock]_vars

\* Ip4Header alone
SpecHeader == Init /\ [][NextHeader]_vars

-----------------------------------------------------------------------------
(* Properties of the inbound TCP dispatch (checked under SpecTcp) *)

\* the step is one call of _phrx_tcp
TcpHandled ==
    packet_stats_rx'.tcp__pre_parse = packet_stats_rx.tcp__pre_parse + 1

\* segment p parsed and has neither an active socket nor, being an initial
\* SYN, a listening socket in the table
NoSocketMatch(p, table) ==
    /\ p.valid
    /\ <<p.dst, p.dport, p.src, p.sport>> \notin table
    /\ ~ /\ p.flag_syn /\ ~p.flag_ack /\ ~p.flag_fin /\ ~p.flag_rst
         /\ \/ <<p.dst, p.dport, UnspecIp, 0>> \in table
            \/ <<UnspecIp, p.dport, UnspecIp, 0>> \in table

\* segment r goes back to the sender of p
Swapped(r, p) ==
    /\ r.src = p.dst /\ r.dst = p.src
    /\ r.sport = p.dport /\ r.dport = p.sport

\* 32-bit quantity a is the (unreduced) sum of quantity s and n
SumIs(a, s, n) ==
    /\ a[2] = (s[2] + n) % 65536
    /\ a[1] = s[1] + ((s[2] + n) \div 65536)

\* C1: an unmatched segment without RST is answered with exactly one RST
\* segment sent back to its sender; an unmatched segment with RST is answered
\* with nothing; in neither case does a socket receive it.
C1_UnmatchedRstOrSilence ==
    [][(TcpHandled /\ NoSocketMatch(packet_rx', sockets)) =>
         /\ tcp_fwd' = {}
         /\ IF packet_rx'.flag_rst
            THEN tcp_tx' = <<>>
            ELSE /\ Len(tcp_tx') = 1
                 /\ tcp_tx'[1].flag_rst
                 /\ Swapped(tcp_tx'[1], packet_rx')]_vars

\* C1 witness: both cases are reachable (shown for the reply case: an unmatched
\* FIN without RST has just been answered with one RST)
C1_Witness ==
    /\ NoSocketMatch(packet_rx, sockets)
    /\ ~packet_rx.flag_rst /\ packet_rx.flag_fin
    /\ Len(tcp_tx) = 1 /\ tcp_tx[1].flag_rst
    /\ packet_stats_rx.tcp__no_socket_match__rst__drop = 1

\* C2: the RST reply to an unmatched segment that has ACK set carries the
\* segment's acknowledgment number as its sequence number.
C2_RstSeqIsSegAck ==
    [][(/\ TcpHandled
        /\ NoSocketMatch(packet_rx', sockets)
        /\ ~packet_rx'.flag_rst
        /\ packet_rx'.flag_ack) =>
         /\ Len(tcp_tx') = 1
         /\ tcp_tx'[1].flag_rst
         /\ tcp_tx'[1].seq = packet_rx'.ack]_vars

\* C3: the RST reply to an unmatched segment that has ACK clear carries
\* RST and ACK, sequence number 0, acknowledgment number
\* seq + payload length + SYN + FIN, and goes back to the sender.
C3_RstReplyToNonAck ==
    [][(/\ TcpHandled
        /\ NoSocketMatch(packet_rx', sockets)
        /\ ~packet_rx'.flag_rst
        /\ ~packet_rx'.flag_ack) =>
         /\ Len(tcp_tx') = 1
         /\ tcp_tx'[1].flag_rst /\ tcp_tx'[1].flag_ack
         /\ ~tcp_tx'[1].flag_syn /\ ~tcp_tx'[1].flag_fin
         /\ tcp_tx'[1].seq = <<0, 0>>
         /\ SumIs(tcp_tx'[1].ack, packet_rx'.seq,
                  packet_rx'.len + (IF packet_rx'.flag_syn THEN 1 ELSE 0)
                                 + (IF packet_rx'.flag_fin THEN 1 ELSE 0))
         /\ Swapped(tcp_tx'[1], packet_rx')]_vars

\* C3 witness: a SYN+FIN with seq=1000 and 3 payload bytes to a port without
\* socket has been answered with RST|ACK, seq=0, ack=1005
C3_Witness ==
    /\ NoSocketMatch(packet_rx, sockets)
    /\ packet_rx.flag_syn /\ packet_rx.flag_fin
    /\ ~packet_rx.flag_ack /\ ~packet_rx.flag_rst
    /\ packet_rx.seq = <<0, 1000>> /\ packet_rx.len = 3
    /\ Len(tcp_tx) = 1
    /\ tcp_tx[1].flag_rst /\ tcp_tx[1].flag_ack
    /\ tcp_tx[1].seq = <<0, 0>> /\ tcp_tx[1].ack = <<0, 1005>>

\* C4: a segment whose addresses and ports match an active socket goes to
\* that socket alone, also when a listening socket exists for the port; a
\* listening socket gets a segment only if no active socket matches; no
\* segment goes to more than one socket.
C4_MostSpecificFirst ==
    [][(TcpHandled /\ packet_rx'.valid) =>
         LET p == packet_rx'
             active == <<p.dst, p.dport, p.src, p.sport>>
         IN /\ active \in sockets => tcp_fwd' = {active}
            /\ tcp_fwd' \subseteq sockets
            /\ (tcp_fwd' # {} /\ tcp_fwd' # {active}) => active \notin sockets
            /\ Cardinality(tcp_fwd') <= 1]_vars

\* C4 witness: an initial SYN that matches both the active socket and a
\* listening socket has been forwarded to the active socket
C4_Witness ==
    /\ packet_rx.valid
    /\ packet_rx.flag_syn /\ ~packet_rx.flag_ack
    /\ ~packet_rx.flag_fin /\ ~packet_rx.flag_rst
    /\ <<packet_rx.dst, packet_rx.dport, packet_rx.src, packet_rx.sport>>
          \in sockets
    /\ <<packet_rx.dst, packet_rx.dport, UnspecIp, 0>> \in sockets
    /\ tcp_fwd = {<<packet_rx.dst, packet_rx.dport,
                    packet_rx.src, packet_rx.sport>>}

\* C24: a segment that fails to parse is dropped: the failed-parse counter
\* goes up by exactly one (and, the pre-parse counter apart, no other counter
\* moves), no socket receives the segment and nothing is transmitted.
C24_FailedParseIsDropped ==
    [][(TcpHandled /\ ~packet_rx'.valid) =>
         /\ packet_stats_rx'.tcp__failed_parse__drop
               = packet_stats_rx.tcp__failed_parse__drop + 1
         /\ \A n \in DOMAIN packet_stats_rx :
               n \notin {"tcp__pre_parse", "tcp__failed_parse__drop"} =>
                   packet_stats_rx'[n] = packet_stats_rx[n]
         /\ tcp_fwd' = {}
         /\ tcp_tx' = <<>>]_vars

\* C24 witness: a segment that failed to parse, addressed to a port that has
\* an active and a listening socket, has been dropped
C24_Witness ==
    /\ packet_rx = BadSegment
    /\ <<BadSegment.dst, BadSegment.dport, BadSegment.src, BadSegment.sport>>
          \in sockets
    /\ <<BadSegment.dst, BadSegment.dport, UnspecIp, 0>> \in sockets
    /\ packet_stats_rx.tcp__failed_parse__drop = 1
    /\ packet_stats_rx.tcp__pre_parse = 1
    /\ tcp_fwd = {} /\ tcp_tx = <<>>

\* a listening socket for the port of segment p is in the table
HasListening(p, table) ==
    \/ <<p.dst, p.dport, UnspecIp, 0>> \in table
    \/ <<UnspecIp, p.dport, UnspecIp, 0>> \in table

\* C26: a segment that matches no active socket goes to a listening socket
\* only if it is an initial SYN (SYN set, ACK, FIN and RST clear); any other
\* segment to a port that has only a listening socket is not delivered to
\* it and is handled as for a closed port: nothing sent if it bears RST, one
\* RST reply otherwise.
C26_ListeningOnlyForInitialSyn ==
    [][(/\ TcpHandled
        /\ packet_rx'.valid
        /\ <<packet_rx'.dst, packet_rx'.dport, packet_rx'.src,
              packet_rx'.sport>> \notin sockets) =>
         LET p == packet_rx'
             initial == p.flag_syn /\ ~p.flag_ack /\ ~p.flag_fin /\ ~p.flag_rst
         IN /\ tcp_fwd' # {} => initial
            /\ (~initial /\ HasListening(p, sockets)) =>
                  /\ tcp_fwd' = {}
                  /\ IF p.flag_rst THEN tcp_tx' = <<>>
                     ELSE /\ Len(tcp_tx') = 1
                          /\ tcp_tx'[1].flag_rst
                          /\ Swapped(tcp_tx'[1], p)]_vars

\* C26 witness: a SYN+ACK to a port that has only a listening socket was not
\* delivered and was answered with a RST
C26_Witness ==
    /\ packet_rx.valid
    /\ packet_rx.flag_syn /\ packet_rx.flag_ack
    /\ ~packet_rx.flag_fin /\ ~packet_rx.flag_rst
    /\ <<packet_rx.dst, packet_rx.dport, packet_rx.src, packet_rx.sport>>
          \notin sockets
    /\ HasListening(packet_rx, sockets)
    /\ tcp_fwd = {}
    /\ Len(tcp_tx) = 1 /\ tcp_tx[1].flag_rst

\* C29: the acknowledgment number of a RST reply is a 32-bit value (the sum
\* seq + payload length + SYN + FIN reduced modulo 2^32).
C29_RstAckIs32Bit ==
    \A i \in 1..Len(tcp_tx) :
        /\ tcp_tx[i].ack[1] \in 0..65535
        /\ tcp_tx[i].ack[2] \in 0..65535

-----------------------------------------------------------------------------
(* Properties of the IPv6 fragment reassembly (checked under SpecFrag) *)

\* the step is one call of _phrx_ip6_ext_frag
FragHandled ==
    packet_stats_rx'.ip6_ext_frag__pre_parse =
        packet_stats_rx.ip6_ext_frag__pre_parse + 1

\* the fragments in payload cover every byte of [0, n)
Covers(payload, n) ==
    \A i \in 0..(n - 1) :
        \E o \in DOMAIN payload : o <= i /\ i < o + Len(payload[o])

\* C5: a datagram is passed on only when the flow has received its MF=0
\* fragment and the stored fragments cover every byte of [0, total_len),
\* total_len being the end of the MF=0 fragment.
C5_DeliveredOnlyWhenComplete ==
    frag_out.kind = "delivered" =>
        /\ frag_out.history.final_end >= 0
        /\ Covers(frag_out.stored, frag_out.history.final_end)

\* C6: for fragments that do not overlap and form one datagram (one MF=0
\* fragment, nothing beyond it), in whatever order they arrive, the datagram
\* is passed on at the arrival of the fragment that completes [0, total_len)
\* and not before, its payload is the original payload, and the flow is gone
\* afterwards so that it is passed on once.
C6_DeliveredOnceWhenCoverageCompletes ==
    (frag_out.kind \in {"stored", "error", "delivered"}
     /\ frag_out.history.clean) =>
        LET h == frag_out.history
            complete == h.final_end >= 0
                        /\ DOMAIN h.bytes = 0..(h.final_end - 1)
        IN /\ (frag_out.kind = "delivered") <=> complete
           /\ frag_out.kind = "delivered" =>
                /\ Len(frag_out.packet.payload) = h.final_end
                /\ \A i \in 0..(h.final_end - 1) :
                      frag_out.packet.payload[i + 1] = h.bytes[i]
                /\ frag_out.packet.header.dlen = h.final_end
                /\ frag_out.flow \notin DOMAIN ip6_frag_flows

\* C6 witness: a datagram of three fragments whose MF=0 fragment did not
\* arrive last has been passed on
C6_Witness ==
    /\ frag_out.kind = "delivered"
    /\ frag_out.history.clean
    /\ frag_out.flag_mf
    /\ Cardinality(DOMAIN frag_out.stored) = 3

\* C7: once a flow is older than the timeout, the next call's sweep removes
\* it; the fragment then handled, if it is of that flow, starts a new flow.
C7_ExpiredFlowIsEvicted ==
    [][(FragHandled /\ frag_out'.kind # "failed_parse") =>
         \A f \in DOMAIN ip6_frag_flows :
            now - ip6_frag_flows[f].timestamp > IP6__FRAG_FLOW_TIMEOUT =>
               IF f = frag_out'.flow THEN frag_out'.fresh
               ELSE f \notin DOMAIN ip6_frag_flows']_vars

\* C8 as stated: every fragment sets its flow's timestamp to its arrival time.
C8_EveryFragmentTouchesTimestamp ==
    [][(FragHandled /\ frag_out'.kind \in {"stored", "error"}) =>
         ip6_frag_flows'[frag_out'.flow].timestamp = now]_vars

\* C8 amended: the first fragment of a flow sets the flow's timestamp to its
\* arrival time; every later fragment of the flow leaves the timestamp as
\* it is.
C8_OnlyFirstFragmentSetsTimestamp ==
    [][(FragHandled /\ frag_out'.kind \in {"stored", "error"}) =>
         ip6_frag_flows'[frag_out'.flow].timestamp =
            IF frag_out'.flow \in DOMAIN ip6_frag_flows
            THEN ip6_frag_flows[frag_out'.flow].timestamp
            ELSE now]_vars

\* C8 witness: a fragment was stored in a flow created earlier, and the
\* flow's timestamp is still the earlier time
C8_Witness ==
    /\ frag_out.kind = "stored"
    /\ frag_out.late
    /\ frag_out.flow \in DOMAIN ip6_frag_flows
    /\ ip6_frag_flows[frag_out.flow].timestamp < now

\* C9: after a datagram is passed on its flow is not in the table; the next
\* fragment with the same (src, dst, id) starts a new flow that holds that
\* fragment only, so what is passed on next has nothing of the old datagram.
C9_DeliveredFlowIsDropped ==
    /\ [](frag_out.kind = "delivered" =>
            frag_out.flow \notin DOMAIN ip6_frag_flows)
    /\ [][(/\ FragHandled
           /\ frag_out.kind = "delivered"
           /\ frag_out'.kind \in {"stored", "error", "delivered"}
           /\ frag_out'.flow = frag_out.flow) =>
            /\ frag_out'.fresh
            /\ Cardinality(DOMAIN frag_out'.stored) = 1
            /\ \A o \in DOMAIN frag_out'.stored :
                  /\ frag_out'.history.bytes =
                        [i \in o..(o + Len(frag_out'.stored[o]) - 1) |->
                            frag_out'.stored[o][i - o + 1]]
                  /\ frag_out'.kind = "delivered" =>
                        frag_out'.packet.payload = frag_out'.stored[o]
            /\ frag_out'.kind = "stored" =>
                  /\ ip6_frag_flows'[frag_out'.flow].payload = frag_out'.stored
                  /\ ip6_frag_flows'[frag_out'.flow].timestamp = now]_vars

\* C9 witness: a fragment of a flow that had a datagram passed on earlier has
\* started a new flow
C9_Witness ==
    /\ frag_out.kind = "stored"
    /\ frag_out.redo
    /\ frag_out.fresh
    /\ frag_out.flow \in DOMAIN ip6_frag_flows

\* C10: a fragment that repeats one already stored in an incomplete flow
\* (same flow, offset, payload, and MF flag already accounted for) leaves the
\* flow's fragments, last flag and header as they were, and passes nothing on.
C10_DuplicateFragmentChangesNothing ==
    [][(FragHandled /\ frag_out'.dup) =>
         LET f == frag_out'.flow IN
         /\ f \in DOMAIN ip6_frag_flows /\ f \in DOMAIN ip6_frag_flows'
         /\ ip6_frag_flows'[f].payload = ip6_frag_flows[f].payload
         /\ ip6_frag_flows'[f].last = ip6_frag_flows[f].last
         /\ ip6_frag_flows'[f].header = ip6_frag_flows[f].header
         /\ frag_out'.kind # "delivered"]_vars

\* C10 witness: a repeated fragment has been handled and the flow is still
\* waiting for its missing fragments
C10_Witness ==
    /\ frag_out.dup
    /\ frag_out.kind = "stored"
    /\ frag_out.flow \in DOMAIN ip6_frag_flows

\* C11: where fragments of a flow overlapped, every byte of the datagram
\* passed on is the byte of the fragment that arrived last for that position
\* (same offset or different offsets).
C11_LastWriterWins ==
    frag_out.kind = "delivered" =>
        \A i \in 0..(Len(frag_out.packet.payload) - 1) :
            i \in DOMAIN frag_out.history.bytes =>
                frag_out.packet.payload[i + 1] = frag_out.history.bytes[i]

\* C28: handling a valid fragment never ends with an exception leaving the
\* handler: the fragment is stored, or a datagram is passed on.
C28_NoUnhandledException ==
    [][(FragHandled /\ frag_out'.kind # "failed_parse") =>
          frag_out'.kind \in {"stored", "delivered"}]_vars

-----------------------------------------------------------------------------
(* Properties of the reassembly of several flows (checked under SpecFlows) *)

\* handling fragment fr acts on the flow (source, destination, id) of fr as
\* if the flow table held that flow alone, and leaves every other flow as
\* it is
ActsOnOwnFlowOnly(fr) ==
    LET f == <<fr.src, fr.dst, fr.id>>
        own == [g \in DOMAIN ip6_frag_flows \cap {f} |-> ip6_frag_flows[g]]
        alone == DefragmentIp6Packet(own, fr, now)
    IN /\ (frag_out'.kind = "delivered") = (alone.result = "packet")
       /\ (frag_out'.kind = "stored") = (alone.result = "none")
       /\ frag_out'.packet = alone.packet
       /\ (f \in DOMAIN ip6_frag_flows') = (f \in DOMAIN alone.flows)
       /\ f \in DOMAIN ip6_frag_flows' => ip6_frag_flows'[f] = alone.flows[f]
       /\ DOMAIN ip6_frag_flows' \ {f} = DOMAIN ip6_frag_flows \ {f}
       /\ \A g \in DOMAIN ip6_frag_flows \ {f} :
             ip6_frag_flows'[g] = ip6_frag_flows[g]

\* the datagram passed on has the addresses of fragment fr and holds no
\* byte of another flow
OwnBytesOnly(fr) ==
    frag_out'.kind = "delivered" =>
        /\ frag_out'.packet.header.src = fr.src
        /\ frag_out'.packet.header.dst = fr.dst
        /\ \A i \in 1..Len(frag_out'.packet.payload) :
              frag_out'.packet.payload[i]
                  = (IF fr.src = "2001:db8::3" THEN 3 ELSE fr.id)

\* C27: fragments are grouped by (source address, destination address,
\* fragment id): a datagram passed on holds bytes of fragments of its own
\* flow only, and what a fragment stores or delivers is what it would store
\* or deliver if no fragment of another flow had been received.
C27_FlowsAreIndependent ==
    [][\A fr \in FlowFragments :
          PhrxIp6ExtFrag(fr) => (ActsOnOwnFlowOnly(fr) /\ OwnBytesOnly(fr))]_vars

\* C27 witness: a datagram of one flow has been passed on while a fragment
\* of a flow with the same fragment id and another source address is held
C27_Witness ==
    /\ frag_out.kind = "delivered"
    /\ frag_out.flow = <<FragSrc, FragDst, 1>>
    /\ Len(frag_out.packet.payload) = 16
    /\ DOMAIN ip6_frag_flows = {<<FragSrc2, FragDst, 1>>}
    /\ packet_stats_rx.ip6_ext_frag__pre_parse = 3

-----------------------------------------------------------------------------
(* Properties of the ICMPv6 parser (checked under SpecIcmp6) *)

\* a parser has been constructed from a frame of the given types that passed
\* integrity validation
Icmp6Validated(types) ==
    /\ icmp6_parser.result # "none"
    /\ icmp6_parser.integrity_ok
    /\ icmp6_parser.packet_rx.frame[1] \in types

\* C12: whatever bytes, declared length, hop limit and addresses the parser
\* is given, its construction completes or raises Icmp6IntegrityError or
\* Icmp6SanityError, and no other exception.
C12_OnlyIntegrityOrSanityErrors ==
    icmp6_parser.result \in {"none", "ok", "integrity", "sanity"}

\* C13: an MLDv2 Report (type 143) that passed integrity validation is
\* rejected with a sanity error when the hop limit is not 1 and is accepted
\* when it is 1.
C13_Mld2ReportHopLimitIsOne ==
    Icmp6Validated({143}) =>
        icmp6_parser.result =
            IF icmp6_parser.packet_rx.hop = 1 THEN "ok" ELSE "sanity"

\* the bytes are zero or more ND options, each with a non-zero length field,
\* that fill the bytes exactly
RECURSIVE WellFormedOptions(_)
WellFormedOptions(b) ==
    \/ b = <<>>
    \/ /\ Len(b) >= 2
       /\ b[2] # 0
       /\ b[2] * 8 <= Len(b)
       /\ WellFormedOptions(SubSeq(b, b[2] * 8 + 1, Len(b)))

\* the options in the bytes, as <<type, data>> pairs
RECURSIVE OptionList(_)
OptionList(b) ==
    IF b = <<>> THEN <<>>
    ELSE <<[type |-> b[1], data |-> SubSeq(b, 3, b[2] * 8)]>>
         \o OptionList(SubSeq(b, b[2] * 8 + 1, Len(b)))

\* C14: a Neighbor Solicitation or Advertisement made of the 24-byte fixed
\* part and well-formed options, with a valid checksum, passes integrity
\* validation and is parsed into a message with the frame's target address
\* and options, whatever the target address is.
C14_WellFormedNeighborMessageParses ==
    LET p == icmp6_parser.packet_rx IN
    (/\ icmp6_parser.result # "none"
     /\ Len(p.frame) >= 24
     /\ p.dlen = Len(p.frame)
     /\ p.frame[1] \in {135, 136}
     /\ inet_cksum(p.frame, p.pshdr_sum) = 0
     /\ WellFormedOptions(SubSeq(p.frame, 25, Len(p.frame)))) =>
        /\ icmp6_parser.integrity_ok
        /\ icmp6_parser.message.target_address = SubSeq(p.frame, 9, 24)
        /\ icmp6_parser.message.options =
              OptionList(SubSeq(p.frame, 25, Len(p.frame)))

\* C15: a Router Solicitation, Router Advertisement, Neighbor Solicitation or
\* Neighbor Advertisement that passed integrity validation and has a hop
\* limit other than 255 is rejected with a sanity error.
C15_NdHopLimitIs255 ==
    (Icmp6Validated({133, 134, 135, 136})
     /\ icmp6_parser.packet_rx.hop # 255) =>
        icmp6_parser.result = "sanity"

\* C15 witness: a Router Advertisement that passed integrity validation and
\* whose addresses are in order was rejected because of its hop limit of 64
C15_Witness ==
    /\ Icmp6Validated({134})
    /\ icmp6_parser.packet_rx.hop = 64
    /\ is_link_local(icmp6_parser.packet_rx.src)
    /\ icmp6_parser.packet_rx.dst = Ip6AllNodes
    /\ icmp6_parser.result = "sanity"

\* the address rules for a Neighbor Solicitation
NsRules(p) ==
    LET target == SubSeq(p.frame, 9, 24)
        slla == \E i \in 1..Len(OptionList(SubSeq(p.frame, 25, Len(p.frame)))) :
                    OptionList(SubSeq(p.frame, 25, Len(p.frame)))[i].type = 1
    IN /\ is_unicast(p.src) \/ is_unspecified(p.src)
       /\ p.dst = target \/ p.dst = solicited_node_multicast(target)
       /\ is_unicast(target)
       /\ is_unspecified(p.src) => ~slla

\* C16: a Neighbor Solicitation that passed integrity validation is accepted
\* only if its source is unicast or unspecified, its destination is the
\* target or the target's solicited-node multicast address, the target is
\* unicast and, with an unspecified source, there is no SLLA option; if one
\* of these fails a sanity error is raised.
C16_NeighborSolicitationRules ==
    Icmp6Validated({135}) =>
        /\ icmp6_parser.result = "ok" => NsRules(icmp6_parser.packet_rx)
        /\ ~NsRules(icmp6_parser.packet_rx) => icmp6_parser.result = "sanity"

\* C16 witness: a Neighbor Solicitation with hop limit 255 and an unspecified
\* source, sent to the solicited-node address of its unicast target, was
\* rejected only because it carries an SLLA option
C16_Witness ==
    LET p == icmp6_parser.packet_rx IN
    /\ Icmp6Validated({135})
    /\ p.hop = 255
    /\ is_unspecified(p.src)
    /\ p.dst = solicited_node_multicast(SubSeq(p.frame, 9, 24))
    /\ is_unicast(SubSeq(p.frame, 9, 24))
    /\ Len(p.frame) = 32
    /\ icmp6_parser.result = "sanity"

\* the address rules for a Neighbor Advertisement
NaRules(p) ==
    LET flag_s == (p.frame[5] \div 64) % 2 = 1
    IN /\ is_unicast(p.src)
       /\ IF flag_s THEN is_unicast(p.dst) \/ p.dst = Ip6AllNodes
          ELSE p.dst = Ip6AllNodes

\* C17: a Neighbor Advertisement that passed integrity validation is accepted
\* only if its source is unicast and its destination is unicast or ff02::1
\* when flag_s is set, ff02::1 when flag_s is clear; otherwise a sanity error
\* is raised.
C17_NeighborAdvertisementRules ==
    Icmp6Validated({136}) =>
        /\ icmp6_parser.result = "ok" => NaRules(icmp6_parser.packet_rx)
        /\ ~NaRules(icmp6_parser.packet_rx) => icmp6_parser.result = "sanity"

\* C17 witness: a Neighbor Advertisement with hop limit 255, a unicast source
\* and flag_s clear was rejected because its destination is a unicast address
C17_Witness ==
    LET p == icmp6_parser.packet_rx IN
    /\ Icmp6Validated({136})
    /\ p.hop = 255
    /\ is_unicast(p.src)
    /\ (p.frame[5] \div 64) % 2 = 0
    /\ is_unicast(p.dst)
    /\ icmp6_parser.result = "sanity"

-----------------------------------------------------------------------------
(* Properties of Ip6Host (checked under SpecHost) *)

\* gateway g may be the gateway of a host with this address and network
GatewayAllowed(g, address, network) ==
    \/ g = None
    \/ /\ is_link_local(g)
       /\ g # address
       /\ g # network.address

\* C18: the gateway of an Ip6Host, however the host was constructed and after
\* any use of the gateway setter, is unset or is a link-local address other
\* than the host's address and its network address; giving a host another
\* gateway raises Ip6HostGatewayError.
C18_GatewayIsLinkLocal ==
    /\ ip6_host.host.exists =>
          GatewayAllowed(ip6_host.host.gateway, ip6_host.host.address,
                         ip6_host.host.network)
    /\ (/\ ip6_host.call = "gateway"
        /\ ~GatewayAllowed(ip6_host.gateway, ip6_host.host.address,
                           ip6_host.host.network)) =>
          ip6_host.raised = "Ip6HostGatewayError"

\* C19: the address of every constructed Ip6Host lies within the host's
\* network; the constructor given an (address, network) pair whose address is
\* outside the network raises Ip6HostSanityError.
C19_AddressWithinNetwork ==
    /\ ip6_host.host.exists =>
          MaskAddress(ip6_host.host.address, ip6_host.host.network.mask)
             = ip6_host.host.network.address
    /\ (/\ ip6_host.call = "init"
        /\ ip6_host.arg.type = "network"
        /\ ip6_host.raised # "AssertionError"
        /\ MaskAddress(ip6_host.arg.address, ip6_host.arg.network.mask)
              # ip6_host.arg.network.address) =>
          /\ ip6_host.raised = "Ip6HostSanityError"
          /\ ~ip6_host.host.exists

\* C19 witness: Ip6Host((2001:db8::1, fe80::/64)) has raised
\* Ip6HostSanityError
C19_Witness ==
    /\ ip6_host.call = "init"
    /\ ip6_host.arg.type = "network"
    /\ ip6_host.arg.address = Ip6Doc1
    /\ ip6_host.arg.network.address = MaskAddress(Ip6LinkLocal1, 64)
    /\ ip6_host.raised = "Ip6HostSanityError"

-----------------------------------------------------------------------------
(* Properties of Ip4Mask (checked under SpecMask) *)

\* the 32-bit value of k leading 1-bits followed by 0-bits
PrefixValue(k) ==
    IF k <= 16 THEN <<65536 - 2^(16 - k), 0>>
    ELSE <<65535, 65536 - 2^(32 - k)>>

Contiguous(v) == \E k \in 0..32 : v = PrefixValue(k)

\* the argument is one the constructor has to reject: an int outside
\* 0..2^32-1, a bytes value not 4 long, a dotted string without four numbers
\* of 0..255, a "/N" with N > 32 or not of one or two digits, a value of
\* another type, or an int, bytes value or dotted string whose bits are not
\* a run of 1s followed by a run of 0s
MaskArgIsWrong(arg) ==
    CASE arg.type = "int" ->
            arg.negative \/ arg.value[1] > 65535 \/ ~Contiguous(arg.value)
      [] arg.type = "bytes" ->
            \/ Len(arg.bytes) # 4
            \/ ~Contiguous(<<arg.bytes[1] * 256 + arg.bytes[2],
                             arg.bytes[3] * 256 + arg.bytes[4]>>)
      [] arg.type = "dotted" ->
            \/ Len(arg.octets) # 4
            \/ \E i \in 1..Len(arg.octets) : arg.octets[i] > 255
            \/ ~Contiguous(<<arg.octets[1] * 256 + arg.octets[2],
                             arg.octets[3] * 256 + arg.octets[4]>>)
      [] arg.type = "slash" ->
            \/ Len(arg.digits) \notin {1, 2}
            \/ (IF Len(arg.digits) = 1 THEN arg.digits[1]
                ELSE 10 * arg.digits[1] + arg.digits[2]) > 32
      [] arg.type = "float" -> TRUE
      [] OTHER -> FALSE

\* C20: a constructed Ip4Mask is a run of high-order 1-bits followed by
\* 0-bits (for "/N", N of them); an argument whose bits are not such a run,
\* a "/N" with N > 32 and a value of the wrong size or range raise
\* Ip4MaskFormatError.
C20_MaskIsContiguous ==
    ip4_mask.call # "none" =>
        /\ ip4_mask.raised = "none" => Contiguous(ip4_mask.mask)
        /\ (ip4_mask.raised = "none" /\ ip4_mask.arg.type = "slash") =>
              ip4_mask.mask = PrefixValue(
                  IF Len(ip4_mask.arg.digits) = 1 THEN ip4_mask.arg.digits[1]
                  ELSE 10 * ip4_mask.arg.digits[1] + ip4_mask.arg.digits[2])
        /\ MaskArgIsWrong(ip4_mask.arg) =>
              ip4_mask.raised = "Ip4MaskFormatError"

\* C20 witness: Ip4Mask(b"\xff\x00\xff\xff"), four bytes whose bits are not
\* contiguous, has raised Ip4MaskFormatError
C20_Witness ==
    /\ ip4_mask.call = "init"
    /\ ip4_mask.arg.type = "bytes"
    /\ ip4_mask.arg.bytes = <<255, 0, 255, 255>>
    /\ ip4_mask.raised = "Ip4MaskFormatError"

-----------------------------------------------------------------------------
(* Properties of the source-address selection (checked under SpecPick) *)

\* address a lies in the network of host h: a and the host's address agree
\* on the leading h.network.mask bits
SameLeadingBits(a, b, n) ==
    \A i \in 1..Len(a) :
        \/ 8 * i <= n /\ a[i] = b[i]
        \/ 8 * (i - 1) >= n
        \/ /\ 8 * (i - 1) < n /\ n < 8 * i
           /\ a[i] \div Pow2(8 * i - n) = b[i] \div Pow2(8 * i - n)
OnLink(h, a) ==
    Len(a) = Len(h.address) /\ SameLeadingBits(a, h.address, h.network.mask)

\* C21: the address selected for remote address R is that of a host of R's
\* family whose network contains R whenever such a host is configured,
\* wherever it is in the list; otherwise that of the first host with a
\* gateway; otherwise the unspecified address.
C21_SourceAddressSelection ==
    local_ip.call = "pick" =>
        LET r == local_ip.remote
            l == local_ip.hosts
            on == {i \in 1..Len(l) : OnLink(l[i], r)}
            gw == {i \in 1..Len(l) : l[i].gateway # <<>>}
        IN /\ \A i \in 1..Len(l) : Len(l[i].address) = Len(r)
           /\ IF on # {} THEN \E i \in on : local_ip.address = l[i].address
              ELSE IF gw # {}
              THEN \E i \in gw : /\ local_ip.address = l[i].address
                                 /\ \A j \in gw : i <= j
              ELSE local_ip.address = [i \in 1..Len(r) |-> 0]

\* C21 witness: the first host has a gateway and does not contain R, the
\* second contains R, and the second host's address was selected
C21_Witness ==
    /\ local_ip.call = "pick"
    /\ Len(local_ip.hosts) = 2
    /\ local_ip.hosts[1].gateway # <<>>
    /\ ~OnLink(local_ip.hosts[1], local_ip.remote)
    /\ OnLink(local_ip.hosts[2], local_ip.remote)
    /\ local_ip.address = local_ip.hosts[2].address
    /\ local_ip.address # local_ip.hosts[1].address

-----------------------------------------------------------------------------
(* Properties of the ICMP message objects (checked under SpecMsg) *)

\* C22: parsing the assembled bytes of an ICMPv4 Echo Request, an ICMPv4
\* Destination Unreachable or an ICMPv6 Router Solicitation message, the
\* checksum field holding the computed checksum, yields a message equal to
\* the one assembled with its checksum field set to that value.
C22_RoundTrip ==
    (icmp_msg.sent.class # "none" /\ icmp_msg.parsed.class # "none") =>
        /\ icmp_msg.parsed.class = icmp_msg.sent.class
        /\ icmp_msg.parsed.type = icmp_msg.sent.type
        /\ icmp_msg.parsed.code = icmp_msg.sent.code
        /\ icmp_msg.parsed.cksum = icmp_msg.sent.cksum
        /\ icmp_msg.parsed.id = icmp_msg.sent.id
        /\ icmp_msg.parsed.seq = icmp_msg.sent.seq
        /\ icmp_msg.parsed.mtu = icmp_msg.sent.mtu
        /\ icmp_msg.parsed.data = icmp_msg.sent.data
        /\ icmp_msg.parsed.options = icmp_msg.sent.options

\* C23: a message of an unrecognised type that was parsed into the Unknown
\* variant has a length and a byte form, and these reproduce the type, the
\* code and the body of the frame it was parsed from.
C23_UnknownMessageAssembles ==
    (/\ icmp_msg.out.done
     /\ icmp_msg.parsed.class \in {"Icmp4UnknownMessage",
                                   "Icmp6UnknownMessage"}) =>
        /\ icmp_msg.out.raised = "none"
        /\ icmp_msg.out.len = Len(icmp_msg.frame)
        /\ Len(icmp_msg.out.bytes) = Len(icmp_msg.frame)
        /\ \A i \in 1..Len(icmp_msg.frame) :
              i \notin {3, 4} => icmp_msg.out.bytes[i] = icmp_msg.frame[i]

-----------------------------------------------------------------------------
(* Properties of the socket name queries (checked under SpecSock) *)

\* C25: getpeername() returns the socket's remote address (as a string) and
\* the socket's remote port.
C25_GetPeerName ==
    sock_name.call = "getpeername" =>
        /\ sock_name.result[1] = sock_name.socket[3]
        /\ sock_name.result[2] = sock_name.socket[4]

-----------------------------------------------------------------------------
(* Properties of Ip4Header (checked under SpecHeader) *)

\* C30: from_bytes succeeds for every 20-byte header with version 4, header
\* length >= 20 and total length >= 20, whatever the 13-bit fragment-offset
\* field holds, and the bytes of the parsed header carry the original flags
\* and fragment-offset field.
C30_HeaderOffsetRoundTrip ==
    LET b == ip4_header.frame
    IN (/\ ip4_header.call # "none"
        /\ b[1] \div 16 = 4
        /\ (b[1] % 16) * 4 >= 20
        /\ b[3] * 256 + b[4] >= 20) =>
          /\ ip4_header.raised = "none"
          /\ ip4_header.call = "bytes" =>
                /\ ip4_header.bytes[7] = b[7]
                /\ ip4_header.bytes[8] = b[8]

====
